---------------------------- MODULE Spec2Model ----------------------------
(***************************************************************************)
(* Model of the forgepoint command line linter (tools/cli): the document   *)
(* model, the parser, the schema loader, the validator and the two-pass    *)
(* batch pipeline of lint_command / ForgepointLinter::lint_files.          *)
(*                                                                         *)
(* Rust strings are sequences of one-character strings, so that trimming,  *)
(* regular-expression matching and substring tests are computed as the     *)
(* code computes them.  Option<T> is a sequence of length 0 (None) or 1    *)
(* (Some).  A HashMap is a function whose DOMAIN is the key set.           *)
(***************************************************************************)
EXTENDS Naturals, Sequences, FiniteSets, TLC

-----------------------------------------------------------------------------
(* Option<T> *)

None == <<>>

Some(x) == <<x>>

IsSome(o) == o # <<>>

-----------------------------------------------------------------------------
(* Characters and string primitives (std::str) *)

Lower == {"a","b","c","d","e","f","g","h","i","j","k","l","m",
          "n","o","p","q","r","s","t","u","v","w","x","y","z"}

Digit == {"0","1","2","3","4","5","6","7","8","9"}

\* char::is_whitespace and \s of the regex crate, among the characters space to '~',
\* tab, line feed, carriage return and form feed
Whitespace == {" ", "\t", "\n", "\r", "\f"}

\* the regex classes [a-z-] and [a-z0-9-]
TypeChars == Lower \cup {"-"}

IdChars == Lower \cup Digit \cup {"-"}

\* str::starts_with
StartsWith(s, p) == Len(p) <= Len(s) /\ SubSeq(s, 1, Len(p)) = p

\* str::ends_with
EndsWith(s, p) == Len(p) <= Len(s) /\ SubSeq(s, Len(s) - Len(p) + 1, Len(s)) = p

\* p occurs in s at position i
HasAt(s, i, p) == i >= 1 /\ i + Len(p) - 1 <= Len(s) /\ SubSeq(s, i, i + Len(p) - 1) = p

\* str::contains
Contains(s, p) == \E i \in 1..(Len(s) + 1) : HasAt(s, i, p)

RECURSIVE RunEnd(_, _, _)
\* end of the longest run of characters of cls that starts at i (greedy cls*)
RunEnd(s, i, cls) ==
    IF i > Len(s) \/ s[i] \notin cls THEN i ELSE RunEnd(s, i + 1, cls)

RECURSIVE RunEndNot(_, _, _)
\* end of the longest run of characters outside excl that starts at i (greedy [^..]*)
RunEndNot(s, i, excl) ==
    IF i > Len(s) \/ s[i] \in excl THEN i ELSE RunEndNot(s, i + 1, excl)

RECURSIVE RunStart(_, _)
\* start of the trailing whitespace of s[1..i]
RunStart(s, i) ==
    IF i < 1 \/ s[i] \notin Whitespace THEN i ELSE RunStart(s, i - 1)

\* str::trim
Trim(s) ==
    LET a == RunEnd(s, 1, Whitespace)
        b == RunStart(s, Len(s))
    IN IF a > b THEN <<>> ELSE SubSeq(s, a, b)

\* str::trim().is_empty()
IsBlank(s) == Trim(s) = <<>>

RECURSIVE Join(_, _)
\* [&str]::join
Join(ss, sep) ==
    IF ss = <<>> THEN <<>>
    ELSE IF Len(ss) = 1 THEN ss[1]
    ELSE ss[1] \o sep \o Join(Tail(ss), sep)

\* Iterator::filter(..).collect() on a Vec
SeqFilter(xs, Keep(_)) ==
    LET F[i \in 0..Len(xs)] ==
            IF i = 0 THEN <<>>
            ELSE IF Keep(xs[i]) THEN Append(F[i - 1], xs[i]) ELSE F[i - 1]
    IN F[Len(xs)]

\* the elements of a Vec
Range(xs) == {xs[i] : i \in 1..Len(xs)}

\* HashMap::insert
MapInsert(m, k, v) == [x \in DOMAIN m \cup {k} |-> IF x = k THEN v ELSE m[x]]

\* HashMap::new
EmptyMap == [x \in {} |-> <<>>]

-----------------------------------------------------------------------------
(* document.rs : ForgepointDocument *)

ATTR_TYPE == <<"f","o","r","g","e","p","o","i","n","t","-","t","y","p","e">>

ATTR_ID == <<"i","d">>

ATTR_SCHEMA_VERSION == <<"s","c","h","e","m","a","-","v","e","r","s","i","o","n">>

\* has_forgepoint_structure with the schema-version attribute forgotten
has_forgepoint_structure_two_attrs(doc) ==
    \A attr \in {ATTR_TYPE, ATTR_ID} : attr \in DOMAIN doc.attributes

has_forgepoint_structure(doc) ==
    \A attr \in {ATTR_TYPE, ATTR_ID, ATTR_SCHEMA_VERSION} : attr \in DOMAIN doc.attributes

document_type(doc) ==
    IF ATTR_TYPE \in DOMAIN doc.attributes THEN Some(doc.attributes[ATTR_TYPE]) ELSE None

document_id(doc) ==
    IF ATTR_ID \in DOMAIN doc.attributes THEN Some(doc.attributes[ATTR_ID]) ELSE None

\* validate_id_format without the check for consecutive hyphens
validate_id_format_no_double_check(doc) ==
    LET oid == document_id(doc)
        id == oid[1]
        Err(msg) == [ok |-> FALSE, err |-> <<"I","n","v","a","l","i","d"," ","I","D"," ","f","o","r","m","a","t",":"," ">> \o msg]
    IN IF ~IsSome(oid) THEN Err(<<"M","i","s","s","i","n","g"," ","d","o","c","u","m","e","n","t"," ","I","D">>)
       ELSE IF ~(Len(id) >= 1 /\ \A i \in 1..Len(id) : id[i] \in IdChars)
            THEN Err(<<"I","D"," ","'">> \o id \o <<"'"," ","m","u","s","t"," ","c","o","n","t","a","i","n"," ","o","n","l","y"," ","l","o","w","e","r","c","a","s","e"," ","l","e","t","t","e","r","s",","," ","n","u","m","b","e","r","s",","," ","a","n","d"," ","h","y","p","h","e","n","s">>)
       ELSE IF StartsWith(id, <<"-">>) \/ EndsWith(id, <<"-">>)
            THEN Err(<<"I","D"," ","c","a","n","n","o","t"," ","s","t","a","r","t"," ","o","r"," ","e","n","d"," ","w","i","t","h"," ","a"," ","h","y","p","h","e","n">>)
       ELSE [ok |-> TRUE, err |-> <<>>]

\* validate_id_format with the messages of the two hyphen checks exchanged
validate_id_format_reasons_exchanged(doc) ==
    LET oid == document_id(doc)
        id == oid[1]
        Err(msg) == [ok |-> FALSE, err |-> <<"I","n","v","a","l","i","d"," ","I","D"," ","f","o","r","m","a","t",":"," ">> \o msg]
    IN IF ~IsSome(oid) THEN Err(<<"M","i","s","s","i","n","g"," ","d","o","c","u","m","e","n","t"," ","I","D">>)
       ELSE IF ~(Len(id) >= 1 /\ \A i \in 1..Len(id) : id[i] \in IdChars)
            THEN Err(<<"I","D"," ","'">> \o id \o <<"'"," ","m","u","s","t"," ","c","o","n","t","a","i","n"," ","o","n","l","y"," ","l","o","w","e","r","c","a","s","e"," ","l","e","t","t","e","r","s",","," ","n","u","m","b","e","r","s",","," ","a","n","d"," ","h","y","p","h","e","n","s">>)
       ELSE IF StartsWith(id, <<"-">>) \/ EndsWith(id, <<"-">>)
            THEN Err(<<"I","D"," ","c","a","n","n","o","t"," ","c","o","n","t","a","i","n"," ","c","o","n","s","e","c","u","t","i","v","e"," ","h","y","p","h","e","n","s">>)
       ELSE IF Contains(id, <<"-","-">>)
            THEN Err(<<"I","D"," ","c","a","n","n","o","t"," ","s","t","a","r","t"," ","o","r"," ","e","n","d"," ","w","i","t","h"," ","a"," ","h","y","p","h","e","n">>)
       ELSE [ok |-> TRUE, err |-> <<>>]

\* Result<()>: ok, or the Display text of ForgepointError::InvalidIdFormat
validate_id_format(doc) ==
    LET oid == document_id(doc)
        id == oid[1]
        Err(msg) == [ok |-> FALSE, err |-> <<"I","n","v","a","l","i","d"," ","I","D"," ","f","o","r","m","a","t",":"," ">> \o msg]
    IN IF ~IsSome(oid) THEN Err(<<"M","i","s","s","i","n","g"," ","d","o","c","u","m","e","n","t"," ","I","D">>)
       ELSE IF ~(Len(id) >= 1 /\ \A i \in 1..Len(id) : id[i] \in IdChars)
            THEN Err(<<"I","D"," ","'">> \o id \o <<"'"," ","m","u","s","t"," ","c","o","n","t","a","i","n"," ","o","n","l","y"," ","l","o","w","e","r","c","a","s","e"," ","l","e","t","t","e","r","s",","," ","n","u","m","b","e","r","s",","," ","a","n","d"," ","h","y","p","h","e","n","s">>)
       ELSE IF StartsWith(id, <<"-">>) \/ EndsWith(id, <<"-">>)
            THEN Err(<<"I","D"," ","c","a","n","n","o","t"," ","s","t","a","r","t"," ","o","r"," ","e","n","d"," ","w","i","t","h"," ","a"," ","h","y","p","h","e","n">>)
       ELSE IF Contains(id, <<"-","-">>)
            THEN Err(<<"I","D"," ","c","a","n","n","o","t"," ","c","o","n","t","a","i","n"," ","c","o","n","s","e","c","u","t","i","v","e"," ","h","y","p","h","e","n","s">>)
       ELSE [ok |-> TRUE, err |-> <<>>]

\* the filter written as level >= 2
level_2_sections_and_deeper(doc) ==
    LET IsLevel2(section) == section.level >= 2
    IN SeqFilter(doc.sections, IsLevel2)

level_2_sections(doc) ==
    LET IsLevel2(section) == section.level = 2
    IN SeqFilter(doc.sections, IsLevel2)

RECURSIVE AbstractScan(_, _, _, _)
\* the loop of abstract_content over lines[i..], with its two locals
AbstractScan(lines, i, in_abstract, abstract_lines) ==
    IF i > Len(lines) THEN abstract_lines
    ELSE LET line == lines[i] IN
         IF Trim(line) = <<"[","a","b","s","t","r","a","c","t","]">>
         THEN AbstractScan(lines, i + 1, TRUE, abstract_lines)
         ELSE IF in_abstract
         THEN IF StartsWith(line, <<"=">>) \/ (StartsWith(line, <<"[">>) /\ EndsWith(line, <<"]">>))
              THEN abstract_lines
              ELSE IF IsBlank(line) /\ abstract_lines # <<>>
              THEN abstract_lines
              ELSE IF ~IsBlank(line)
              THEN AbstractScan(lines, i + 1, in_abstract, Append(abstract_lines, line))
              ELSE AbstractScan(lines, i + 1, in_abstract, abstract_lines)
         ELSE AbstractScan(lines, i + 1, in_abstract, abstract_lines)

\* abstract_content without the trim() of the joined lines
abstract_content_untrimmed(doc) ==
    LET abstract_lines == AbstractScan(doc.content, 1, FALSE, <<>>)
    IN IF abstract_lines = <<>> THEN None
       ELSE Some(Join(abstract_lines, <<"\n">>))

abstract_content(doc) ==
    LET abstract_lines == AbstractScan(doc.content, 1, FALSE, <<>>)
    IN IF abstract_lines = <<>> THEN None
       ELSE Some(Trim(Join(abstract_lines, <<"\n">>)))

\* a function that panicked: it has no value
Panicked(message) == [panicked |-> TRUE, message |-> message, value |-> <<>>]

\* a function that returned value
Returns(value) == [panicked |-> FALSE, message |-> <<>>, value |-> value]

\* the pattern of internal_regex
INTERNAL_PATTERN == <<"x","r","e","f",":","(","[","a","-","z","-","]","+",")",":","(","[","a","-","z","0","-","9","-","]","+",")","(","?",":","\\","[","[","^","\\","]","]","*","\\","]",")","?">>

\* the pattern of external_regex
EXTERNAL_PATTERN ==
    <<"x","r","e","f",":","(","[","^","#","]","+",")","#","(","[","a","-","z","-","]","+",")",":","(","[","a","-","z","0","-","9","-","]","+",")","(","?",":","@","(","[","^","[","\\","]","]","+",")",")","?","(","?",":","\\","[","[","^","\\","]","]","*","\\","]",")","?">>

RECURSIVE OpenClasses(_, _, _)
\* the parser of the regex crate on the brackets of a pattern, from position i with
\* depth classes open: a backslash escapes the next character; '[' opens a class, also
\* inside a class (a nested class), and a ']' right after '[' or '[^' is a literal;
\* ']' closes the innermost open class. The number of classes open at the end.
OpenClasses(pattern, i, depth) ==
    IF i > Len(pattern) THEN depth
    ELSE IF pattern[i] = "\\" THEN OpenClasses(pattern, i + 2, depth)
    ELSE IF pattern[i] = "["
    THEN LET j == IF i + 1 <= Len(pattern) /\ pattern[i + 1] = "^" THEN i + 2 ELSE i + 1
             k == IF j <= Len(pattern) /\ pattern[j] = "]" THEN j + 1 ELSE j
         IN OpenClasses(pattern, k, depth + 1)
    ELSE IF pattern[i] = "]" /\ depth > 0 THEN OpenClasses(pattern, i + 1, depth - 1)
    ELSE OpenClasses(pattern, i + 1, depth)

\* Regex::new(pattern): Err for a pattern with a class that is not closed
Regex_new(pattern) ==
    IF OpenClasses(pattern, 1, 0) > 0
    THEN [ok |-> FALSE, value |-> <<>>, err |-> <<"r","e","g","e","x"," ","p","a","r","s","e"," ","e","r","r","o","r",":"," ","u","n","c","l","o","s","e","d"," ","c","h","a","r","a","c","t","e","r"," ","c","l","a","s","s">>]
    ELSE [ok |-> TRUE, value |-> pattern, err |-> <<>>]

\* Result::unwrap: the Ok value, or a panic that carries the Err value
unwrap(result) ==
    IF result.ok THEN Returns(result.value) ELSE Panicked(result.err)

\* the optional trailing group (?:\[[^\]]*\])? tried at position i: the position after it
BracketEnd(s, i) ==
    IF i <= Len(s) /\ s[i] = "["
    THEN LET j == RunEndNot(s, i + 1, {"]"})
         IN IF j <= Len(s) THEN j + 1 ELSE i
    ELSE i

\* internal_regex  xref:([a-z-]+):([a-z0-9-]+)(?:\[[^\]]*\])?  tried at position i
InternalMatchAt(s, i) ==
    LET a == i + 5
        b == RunEnd(s, a, TypeChars)
        c == b + 1
        d == RunEnd(s, c, IdChars)
        ok == /\ HasAt(s, i, <<"x","r","e","f",":">>)
              /\ b > a /\ b <= Len(s) /\ s[b] = ":"
              /\ d > c
    IN IF ok THEN [ok |-> TRUE, ref_type |-> SubSeq(s, a, b - 1), id |-> SubSeq(s, c, d - 1),
                   end |-> BracketEnd(s, d)]
       ELSE [ok |-> FALSE, ref_type |-> <<>>, id |-> <<>>, end |-> i]

\* the external pattern with its class read as "neither '[' nor ']'", that is
\* xref:([^#]+)#([a-z-]+):([a-z0-9-]+)(?:@([^\[\]]+))?(?:\[[^\]]*\])?, tried at position i
ExternalMatchAt(s, i) ==
    LET a == i + 5
        b == RunEndNot(s, a, {"#"})
        c == b + 1
        d == RunEnd(s, c, TypeChars)
        e == d + 1
        f == RunEnd(s, e, IdChars)
        ok == /\ HasAt(s, i, <<"x","r","e","f",":">>)
              /\ b > a /\ b <= Len(s)
              /\ d > c /\ d <= Len(s) /\ s[d] = ":"
              /\ f > e
        g == RunEndNot(s, f + 1, {"[", "]"})
        hasVersion == f <= Len(s) /\ s[f] = "@" /\ g > f + 1
    IN IF ok THEN [ok |-> TRUE, repository |-> SubSeq(s, a, b - 1),
                   ref_type |-> SubSeq(s, c, d - 1), id |-> SubSeq(s, e, f - 1),
                   version |-> IF hasVersion THEN Some(SubSeq(s, f + 1, g - 1)) ELSE None,
                   end |-> BracketEnd(s, IF hasVersion THEN g ELSE f)]
       ELSE [ok |-> FALSE, repository |-> <<>>, ref_type |-> <<>>, id |-> <<>>,
             version |-> None, end |-> i]

RECURSIVE InternalCaptures(_, _)
\* internal_regex.captures_iter: the successive leftmost non-overlapping matches from pos on
InternalCaptures(s, pos) ==
    IF pos > Len(s) THEN <<>>
    ELSE LET m == InternalMatchAt(s, pos)
         IN IF m.ok THEN <<m>> \o InternalCaptures(s, m.end)
            ELSE InternalCaptures(s, pos + 1)

RECURSIVE ExternalCaptures(_, _)
\* captures_iter of the external pattern read that way
ExternalCaptures(s, pos) ==
    IF pos > Len(s) THEN <<>>
    ELSE LET m == ExternalMatchAt(s, pos)
         IN IF m.ok THEN <<m>> \o ExternalCaptures(s, m.end)
            ELSE ExternalCaptures(s, pos + 1)

\* the body of the loop over the lines, which runs only if both regexes were built: the
\* CrossReferences of one line, the internal matches, then the external ones
LineReferences(line, line_no) ==
    LET ints == InternalCaptures(line, 1)
        exts == ExternalCaptures(line, 1)
    IN [k \in 1..Len(ints) |->
            [ref_type |-> ints[k].ref_type, id |-> ints[k].id, line_number |-> Some(line_no),
             external |-> FALSE, version |-> None, repository |-> None]]
       \o
       [k \in 1..Len(exts) |->
            [ref_type |-> exts[k].ref_type, id |-> exts[k].id, line_number |-> Some(line_no),
             external |-> TRUE, version |-> exts[k].version,
             repository |-> Some(exts[k].repository)]]

RECURSIVE ReferencesFrom(_, _)
ReferencesFrom(lines, line_no) ==
    IF line_no > Len(lines) THEN <<>>
    ELSE LineReferences(lines[line_no], line_no) \o ReferencesFrom(lines, line_no + 1)

\* extract_cross_references after the two let statements: the panic of the first
\* unwrap() that panicked, or else the references the loop over the lines collects
ExtractWith(internal_regex, external_regex, doc) ==
    IF internal_regex.panicked THEN internal_regex
    ELSE IF external_regex.panicked THEN external_regex
    ELSE Returns(ReferencesFrom(doc.content, 1))

\* extract_cross_references: both regexes are built, each with unwrap(), before the
\* loop over the lines
extract_cross_references(doc) ==
    ExtractWith(unwrap(Regex_new(INTERNAL_PATTERN)), unwrap(Regex_new(EXTERNAL_PATTERN)), doc)

-----------------------------------------------------------------------------
(* parser.rs : DocumentParser *)

\* the capture (.+) that follows \s+ when \s+ starts at position w
RestCapture(line, w) ==
    LET r == RunEnd(line, w, Whitespace)
    IN IF r <= Len(line) THEN SubSeq(line, r, Len(line)) ELSE SubSeq(line, Len(line), Len(line))

\* title_regex  ^=\s+(.+)$ : Some(cap[1]) or None
TitleCapture(line) ==
    IF Len(line) >= 3 /\ line[1] = "=" /\ line[2] \in Whitespace
    THEN Some(RestCapture(line, 2))
    ELSE None

\* section_regex whose level counts the markers after the first
SectionCapture_markers_after_first(line) ==
    LET k == RunEnd(line, 1, {"="}) - 1
    IN IF k >= 1 /\ Len(line) >= k + 2 /\ line[k + 1] \in Whitespace
       THEN Some([level |-> k - 1, title |-> RestCapture(line, k + 1)])
       ELSE None

\* section_regex  ^(=+)\s+(.+)$ : Some([level |-> cap[1].len(), title |-> cap[2]]) or None
SectionCapture(line) ==
    LET k == RunEnd(line, 1, {"="}) - 1
    IN IF k >= 1 /\ Len(line) >= k + 2 /\ line[k + 1] \in Whitespace
       THEN Some([level |-> k, title |-> RestCapture(line, k + 1)])
       ELSE None

\* attribute_regex  ^:([^:]+):\s*(.*)$ : Some([key |-> cap[1], value |-> cap[2]]) or None
AttributeCapture(line) ==
    LET j == RunEndNot(line, 2, {":"})
    IN IF Len(line) >= 1 /\ line[1] = ":" /\ j > 2 /\ j <= Len(line)
       THEN LET v == RunEnd(line, j + 1, Whitespace)
            IN Some([key |-> SubSeq(line, 2, j - 1),
                     value |-> IF v > Len(line) THEN <<>> ELSE SubSeq(line, v, Len(line))])
       ELSE None

\* the locals of parse_content before the first line
ParseInit ==
    [title |-> None, attributes |-> EmptyMap, sections |-> <<>>,
     current_section |-> None, in_header |-> TRUE]

\* ParseStep without the test that no title has been found yet
ParseStep_title_recaptured(st, line, line_number) ==
    LET tcap == TitleCapture(line)
        acap == AttributeCapture(line)
        scap == SectionCapture(line)
    IN IF IsBlank(line) THEN st
       ELSE IF st.in_header /\ IsSome(tcap)
       THEN [st EXCEPT !.title = Some(Trim(tcap[1]))]
       ELSE IF st.in_header /\ IsSome(acap)
       THEN [st EXCEPT !.attributes = MapInsert(@, Trim(acap[1].key), Trim(acap[1].value))]
       ELSE IF IsSome(scap)
       THEN [st EXCEPT !.in_header = FALSE,
                       !.sections = IF IsSome(st.current_section)
                                    THEN Append(@, st.current_section[1]) ELSE @,
                       !.current_section =
                           Some([level |-> scap[1].level, title |-> Trim(scap[1].title),
                                 content |-> <<>>, line_number |-> Some(line_number)])]
       ELSE IF ~st.in_header
       THEN IF IsSome(st.current_section)
            THEN [st EXCEPT !.current_section =
                     Some([st.current_section[1] EXCEPT !.content =
                              IF @ # <<>> THEN @ \o <<"\n">> \o line ELSE line])]
            ELSE [st EXCEPT !.current_section =
                     Some([level |-> 0, title |-> <<"C","o","n","t","e","n","t">>, content |-> line,
                           line_number |-> Some(line_number)])]
       ELSE st

\* ParseStep that takes attribute lines outside the header too
ParseStep_attributes_anywhere(st, line, line_number) ==
    LET tcap == TitleCapture(line)
        acap == AttributeCapture(line)
        scap == SectionCapture(line)
    IN IF IsBlank(line) THEN st
       ELSE IF st.title = None /\ st.in_header /\ IsSome(tcap)
       THEN [st EXCEPT !.title = Some(Trim(tcap[1]))]
       ELSE IF IsSome(acap)
       THEN [st EXCEPT !.attributes = MapInsert(@, Trim(acap[1].key), Trim(acap[1].value))]
       ELSE IF IsSome(scap)
       THEN [st EXCEPT !.in_header = FALSE,
                       !.sections = IF IsSome(st.current_section)
                                    THEN Append(@, st.current_section[1]) ELSE @,
                       !.current_section =
                           Some([level |-> scap[1].level, title |-> Trim(scap[1].title),
                                 content |-> <<>>, line_number |-> Some(line_number)])]
       ELSE IF ~st.in_header
       THEN IF IsSome(st.current_section)
            THEN [st EXCEPT !.current_section =
                     Some([st.current_section[1] EXCEPT !.content =
                              IF @ # <<>> THEN @ \o <<"\n">> \o line ELSE line])]
            ELSE [st EXCEPT !.current_section =
                     Some([level |-> 0, title |-> <<"C","o","n","t","e","n","t">>, content |-> line,
                           line_number |-> Some(line_number)])]
       ELSE st

\* ParseStep that appends blank lines to the open section
ParseStep_blank_lines_kept(st, line, line_number) ==
    LET tcap == TitleCapture(line)
        acap == AttributeCapture(line)
        scap == SectionCapture(line)
    IN IF IsBlank(line)
       THEN IF ~st.in_header /\ IsSome(st.current_section)
            THEN [st EXCEPT !.current_section =
                     Some([st.current_section[1] EXCEPT !.content = @ \o <<"\n">> \o line])]
            ELSE st
       ELSE IF st.title = None /\ st.in_header /\ IsSome(tcap)
       THEN [st EXCEPT !.title = Some(Trim(tcap[1]))]
       ELSE IF st.in_header /\ IsSome(acap)
       THEN [st EXCEPT !.attributes = MapInsert(@, Trim(acap[1].key), Trim(acap[1].value))]
       ELSE IF IsSome(scap)
       THEN [st EXCEPT !.in_header = FALSE,
                       !.sections = IF IsSome(st.current_section)
                                    THEN Append(@, st.current_section[1]) ELSE @,
                       !.current_section =
                           Some([level |-> scap[1].level, title |-> Trim(scap[1].title),
                                 content |-> <<>>, line_number |-> Some(line_number)])]
       ELSE IF ~st.in_header
       THEN IF IsSome(st.current_section)
            THEN [st EXCEPT !.current_section =
                     Some([st.current_section[1] EXCEPT !.content =
                              IF @ # <<>> THEN @ \o <<"\n">> \o line ELSE line])]
            ELSE [st EXCEPT !.current_section =
                     Some([level |-> 0, title |-> <<"C","o","n","t","e","n","t">>, content |-> line,
                           line_number |-> Some(line_number)])]
       ELSE st

\* ParseStep whose content branch runs in the header too
ParseStep_content_in_header(st, line, line_number) ==
    LET tcap == TitleCapture(line)
        acap == AttributeCapture(line)
        scap == SectionCapture(line)
    IN IF IsBlank(line) THEN st
       ELSE IF st.title = None /\ st.in_header /\ IsSome(tcap)
       THEN [st EXCEPT !.title = Some(Trim(tcap[1]))]
       ELSE IF st.in_header /\ IsSome(acap)
       THEN [st EXCEPT !.attributes = MapInsert(@, Trim(acap[1].key), Trim(acap[1].value))]
       ELSE IF IsSome(scap)
       THEN [st EXCEPT !.in_header = FALSE,
                       !.sections = IF IsSome(st.current_section)
                                    THEN Append(@, st.current_section[1]) ELSE @,
                       !.current_section =
                           Some([level |-> scap[1].level, title |-> Trim(scap[1].title),
                                 content |-> <<>>, line_number |-> Some(line_number)])]
       ELSE IF TRUE
       THEN IF IsSome(st.current_section)
            THEN [st EXCEPT !.current_section =
                     Some([st.current_section[1] EXCEPT !.content =
                              IF @ # <<>> THEN @ \o <<"\n">> \o line ELSE line])]
            ELSE [st EXCEPT !.current_section =
                     Some([level |-> 0, title |-> <<"C","o","n","t","e","n","t">>, content |-> line,
                           line_number |-> Some(line_number)])]
       ELSE st

\* one iteration of the line loop of parse_content
ParseStep(st, line, line_number) ==
    LET tcap == TitleCapture(line)
        acap == AttributeCapture(line)
        scap == SectionCapture(line)
    IN IF IsBlank(line) THEN st
       ELSE IF st.title = None /\ st.in_header /\ IsSome(tcap)
       THEN [st EXCEPT !.title = Some(Trim(tcap[1]))]
       ELSE IF st.in_header /\ IsSome(acap)
       THEN [st EXCEPT !.attributes = MapInsert(@, Trim(acap[1].key), Trim(acap[1].value))]
       ELSE IF IsSome(scap)
       THEN [st EXCEPT !.in_header = FALSE,
                       !.sections = IF IsSome(st.current_section)
                                    THEN Append(@, st.current_section[1]) ELSE @,
                       !.current_section =
                           Some([level |-> scap[1].level, title |-> Trim(scap[1].title),
                                 content |-> <<>>, line_number |-> Some(line_number)])]
       ELSE IF ~st.in_header
       THEN IF IsSome(st.current_section)
            THEN [st EXCEPT !.current_section =
                     Some([st.current_section[1] EXCEPT !.content =
                              IF @ # <<>> THEN @ \o <<"\n">> \o line ELSE line])]
            ELSE [st EXCEPT !.current_section =
                     Some([level |-> 0, title |-> <<"C","o","n","t","e","n","t">>, content |-> line,
                           line_number |-> Some(line_number)])]
       ELSE st

RECURSIVE ParseLines(_, _, _)
\* the line loop of parse_content from line i on
ParseLines(st, lines, i) ==
    IF i > Len(lines) THEN st
    ELSE ParseLines(ParseStep(st, lines[i], i), lines, i + 1)

\* ParseFinish that leaves the open section out
ParseFinish_open_section_dropped(st, content, file_path) ==
    [file_path |-> file_path,
     title |-> st.title,
     attributes |-> st.attributes,
     content |-> content,
     sections |-> st.sections]

\* parse_content after the line loop: the last section and the document
ParseFinish(st, content, file_path) ==
    [file_path |-> file_path,
     title |-> st.title,
     attributes |-> st.attributes,
     content |-> content,
     sections |-> IF IsSome(st.current_section)
                  THEN Append(st.sections, st.current_section[1]) ELSE st.sections]

\* content is the sequence content.lines()
parse_content(content, file_path) ==
    ParseFinish(ParseLines(ParseInit, content, 1), content, file_path)

\* Result<ForgepointDocument>; when fs::read_to_string fails, the io::Error is part of
\* the message
parse_file(file) ==
    IF file.readable
    THEN [ok |-> TRUE, doc |-> Some(parse_content(file.content, file.path)), err |-> <<>>]
    ELSE [ok |-> FALSE, doc |-> None,
          err |-> <<"D","o","c","u","m","e","n","t"," ","p","a","r","s","i","n","g"," ","e","r","r","o","r",":"," ","F","a","i","l","e","d"," ","t","o"," ","r","e","a","d"," ","f","i","l","e"," ","'">> \o file.path
                  \o <<"'",":"," ">> \o file.error]

\* is_asciidoc_content: content.lines().take(20)
FirstLines == 20

\* the body of the loop of is_asciidoc_content: what one line adds to asciidoc_indicators
LineIndicators(line) ==
    LET trimmed == Trim(line)
    IN IF StartsWith(trimmed, <<"=">>) THEN 2
       ELSE IF StartsWith(trimmed, <<":">>) /\ EndsWith(trimmed, <<":">>) THEN 1
       ELSE IF StartsWith(trimmed, <<"/","/">>) THEN 1
       ELSE IF Contains(trimmed, <<"x","r","e","f",":">>) \/ Contains(trimmed, <<"<","<">>) THEN 1
       ELSE 0

RECURSIVE Indicators(_, _)
\* asciidoc_indicators after the first n of these lines
Indicators(lines, n) ==
    IF n = 0 THEN 0 ELSE Indicators(lines, n - 1) + LineIndicators(lines[n])

\* is_asciidoc_content without take(20)
is_asciidoc_content_all_lines(content) == Indicators(content, Len(content)) >= 2

\* content is the sequence content.lines()
is_asciidoc_content(content) ==
    LET lines == SubSeq(content, 1, IF Len(content) < FirstLines THEN Len(content) ELSE FirstLines)
    IN Indicators(lines, Len(lines)) >= 2

-----------------------------------------------------------------------------
(* schema.rs : SchemaLoader *)
(* The schema directory on disk is the record                              *)
(*   [index |-> "missing" | "malformed" | "ok",                            *)
(*    document_types |-> the documentTypes of index.json,                  *)
(*    files |-> schema file name -> [state, required, structural_requirements]] *)
(* where state is "missing", "malformed" (not JSON), "uncompilable"        *)
(* (JSONSchema::compile fails) or "ok".  Of a schema body only the         *)
(* "required" keyword is modelled.                                          *)

SchemaLoader_new == [registry |-> None, compiled_schemas |-> EmptyMap]

NoStructuralRequirements == [title |-> None, sections |-> None, abstract_req |-> None]

\* Result<()> and the loader as load_schema leaves it
load_schema(loader, dir, doc_type, schema_file) ==
    LET file == dir.files[schema_file]
        defs == IF IsSome(loader.registry)
                THEN SeqFilter(loader.registry[1].document_types,
                               LAMBDA dt : dt.doc_type = doc_type)
                ELSE <<>>
    IN IF schema_file \notin DOMAIN dir.files \/ file.state = "missing"
       THEN [ok |-> TRUE, err |-> "", loader |-> loader]
       ELSE IF file.state = "malformed"
       THEN [ok |-> FALSE, err |-> "Json", loader |-> loader]
       ELSE IF file.state = "uncompilable"
       THEN [ok |-> FALSE, err |-> "Schema", loader |-> loader]
       ELSE IF defs = <<>>
       THEN [ok |-> FALSE, err |-> "Schema", loader |-> loader]
       ELSE [ok |-> TRUE, err |-> "",
             loader |-> [loader EXCEPT !.compiled_schemas =
                 MapInsert(@, doc_type,
                           [definition |-> defs[1],
                            json_schema |-> [required |-> file.required],
                            structural_requirements |-> file.structural_requirements])]]

RECURSIVE LoadEach(_, _, _)
\* the loop of load_schemas over registry.document_types[i..]
LoadEach(loader, dir, i) ==
    IF i > Len(dir.document_types) THEN [ok |-> TRUE, err |-> "", loader |-> loader]
    ELSE LET r == load_schema(loader, dir, dir.document_types[i].doc_type,
                              dir.document_types[i].schema)
         IN IF r.ok THEN LoadEach(r.loader, dir, i + 1) ELSE r

\* load_schemas that starts by emptying the loader
load_schemas_from_scratch(loader, dir) ==
    IF dir.index = "missing"
    THEN [ok |-> FALSE, err |-> "FileNotFound",
          loader |-> [registry |-> None, compiled_schemas |-> EmptyMap]]
    ELSE IF dir.index = "malformed"
    THEN [ok |-> FALSE, err |-> "Json",
          loader |-> [registry |-> None, compiled_schemas |-> EmptyMap]]
    ELSE LET r == LoadEach([registry |-> None, compiled_schemas |-> EmptyMap], dir, 1)
         IN IF r.ok
            THEN [r EXCEPT !.loader.registry = Some([document_types |-> dir.document_types])]
            ELSE r

\* Result<()> and the loader as load_schemas leaves it
load_schemas(loader, dir) ==
    IF dir.index = "missing" THEN [ok |-> FALSE, err |-> "FileNotFound", loader |-> loader]
    ELSE IF dir.index = "malformed" THEN [ok |-> FALSE, err |-> "Json", loader |-> loader]
    ELSE LET r == LoadEach(loader, dir, 1)
         IN IF r.ok
            THEN [r EXCEPT !.loader.registry = Some([document_types |-> dir.document_types])]
            ELSE r

get_schema(loader, doc_type) ==
    IF doc_type \in DOMAIN loader.compiled_schemas
    THEN Some(loader.compiled_schemas[doc_type]) ELSE None

\* get_document_types: the document_types of the registry, or an empty Vec
get_document_types(loader) ==
    IF IsSome(loader.registry) THEN loader.registry[1].document_types ELSE <<>>

is_valid_document_type(loader, doc_type) == doc_type \in DOMAIN loader.compiled_schemas

\* Result<Vec<String>>
validate_attributes(loader, doc_type, attributes) ==
    LET schema == get_schema(loader, doc_type)
        missing == SeqFilter(schema[1].json_schema.required,
                             LAMBDA k : k \notin DOMAIN attributes)
    IN IF ~IsSome(schema)
       THEN [ok |-> FALSE, errors |-> <<>>, err |-> <<"I","n","v","a","l","i","d"," ","d","o","c","u","m","e","n","t"," ","t","y","p","e",":"," ">> \o doc_type]
       ELSE [ok |-> TRUE,
             errors |-> [i \in 1..Len(missing) |->
                            <<"V","a","l","i","d","a","t","i","o","n"," ","e","r","r","o","r"," ","a","t"," ",":"," ","\"">> \o missing[i]
                            \o <<"\""," ","i","s"," ","a"," ","r","e","q","u","i","r","e","d"," ","p","r","o","p","e","r","t","y">>],
             err |-> <<>>]

get_required_sections(loader, doc_type) ==
    LET schema == get_schema(loader, doc_type)
    IN IF IsSome(schema) /\ IsSome(schema[1].structural_requirements.sections)
          /\ IsSome(schema[1].structural_requirements.sections[1].required)
       THEN schema[1].structural_requirements.sections[1].required[1]
       ELSE <<>>

is_abstract_required(loader, doc_type) ==
    LET schema == get_schema(loader, doc_type)
    IN IF IsSome(schema) /\ IsSome(schema[1].structural_requirements.abstract_req)
          /\ IsSome(schema[1].structural_requirements.abstract_req[1].required)
       THEN schema[1].structural_requirements.abstract_req[1].required[1]
       ELSE FALSE

get_title_format(loader, doc_type) ==
    LET schema == get_schema(loader, doc_type)
    IN IF IsSome(schema) /\ IsSome(schema[1].structural_requirements.title)
       THEN schema[1].structural_requirements.title[1].format
       ELSE None

-----------------------------------------------------------------------------
(* validator.rs : DocumentValidator *)

ValidationError(error_type, severity, message, location, rule, suggestion) ==
    [error_type |-> error_type, severity |-> severity, message |-> message,
     location |-> location, rule |-> rule, suggestion |-> suggestion]

\* Location { line: Some(line), column: None, section: None }
LineLocation(line_number) ==
    IF IsSome(line_number)
    THEN Some([line |-> line_number, column |-> None, section |-> None])
    ELSE None

DocumentValidator_new(schema_loader) ==
    [schema_loader |-> schema_loader, document_index |-> EmptyMap]

\* the result for a document without the structure, with valid left true
StructureFailure_left_valid(doc) ==
    [file_path |-> doc.file_path,
     document_type |-> None,
     document_id |-> None,
     valid |-> TRUE,
     errors |-> <<ValidationError("Structure", "Error",
         <<"D","o","c","u","m","e","n","t"," ","m","i","s","s","i","n","g"," ","r","e","q","u","i","r","e","d"," ","F","o","r","g","e","p","o","i","n","t"," ","a","t","t","r","i","b","u","t","e","s"," ","(",":","f","o","r","g","e","p","o","i","n","t","-","t","y","p","e",":",","," ",":","i","d",":",","," ",":","s","c","h","e","m","a","-","v","e","r","s","i","o","n",":",")">>,
         None, Some("require-forgepoint-structure"),
         Some(<<"A","d","d"," ","t","h","e"," ","r","e","q","u","i","r","e","d"," ","a","t","t","r","i","b","u","t","e","s"," ","t","o"," ","t","h","e"," ","d","o","c","u","m","e","n","t"," ","h","e","a","d","e","r">>))>>,
     warnings |-> <<>>]

\* validate_document, the early return for a document without the structure
StructureFailure(doc) ==
    [file_path |-> doc.file_path,
     document_type |-> None,
     document_id |-> None,
     valid |-> FALSE,
     errors |-> <<ValidationError("Structure", "Error",
         <<"D","o","c","u","m","e","n","t"," ","m","i","s","s","i","n","g"," ","r","e","q","u","i","r","e","d"," ","F","o","r","g","e","p","o","i","n","t"," ","a","t","t","r","i","b","u","t","e","s"," ","(",":","f","o","r","g","e","p","o","i","n","t","-","t","y","p","e",":",","," ",":","i","d",":",","," ",":","s","c","h","e","m","a","-","v","e","r","s","i","o","n",":",")">>,
         None, Some("require-forgepoint-structure"),
         Some(<<"A","d","d"," ","t","h","e"," ","r","e","q","u","i","r","e","d"," ","a","t","t","r","i","b","u","t","e","s"," ","t","o"," ","t","h","e"," ","d","o","c","u","m","e","n","t"," ","h","e","a","d","e","r">>))>>,
     warnings |-> <<>>]

\* validate_document, "Validate document type exists" and the checks of a known type
TypeChecks(loader, doc) ==
    LET doc_type == document_type(doc)[1]
        attrs == validate_attributes(loader, doc_type, doc.attributes)
        schema_errors ==
            IF attrs.ok
            THEN [i \in 1..Len(attrs.errors) |->
                    ValidationError("Schema", "Error", attrs.errors[i],
                        Some([line |-> None, column |-> None, section |-> Some(<<"a","t","t","r","i","b","u","t","e","s">>)]),
                        Some("schema-validation"), None)]
            ELSE <<ValidationError("Schema", "Error",
                        <<"S","c","h","e","m","a"," ","v","a","l","i","d","a","t","i","o","n"," ","f","a","i","l","e","d",":"," ">> \o attrs.err,
                        None, Some("schema-validation"), None)>>
        l2 == level_2_sections(doc)
        document_sections == {l2[i].title : i \in 1..Len(l2)}
        missing == SeqFilter(get_required_sections(loader, doc_type),
                             LAMBDA required_section : required_section \notin document_sections)
        section_errors ==
            [i \in 1..Len(missing) |->
                ValidationError("Structure", "Error",
                    <<"M","i","s","s","i","n","g"," ","r","e","q","u","i","r","e","d"," ","s","e","c","t","i","o","n",":"," ">> \o missing[i],
                    None, Some("required-sections"),
                    Some(<<"A","d","d"," ","a"," ","'","=","="," ">> \o missing[i] \o <<"'"," ","s","e","c","t","i","o","n"," ","t","o"," ","y","o","u","r"," ","d","o","c","u","m","e","n","t">>))]
        abstract_errors ==
            IF is_abstract_required(loader, doc_type) /\ abstract_content(doc) = None
            THEN <<ValidationError("Structure", "Error", <<"D","o","c","u","m","e","n","t"," ","r","e","q","u","i","r","e","s"," ","a","n"," ","a","b","s","t","r","a","c","t">>,
                        None, Some("required-abstract"),
                        Some(<<"A","d","d"," ","a","n"," ","[","a","b","s","t","r","a","c","t","]"," ","b","l","o","c","k"," ","a","f","t","e","r"," ","t","h","e"," ","t","i","t","l","e">>))>>
            ELSE <<>>
        title_format == get_title_format(loader, doc_type)
        title_warnings ==
            IF IsSome(title_format) /\ Contains(title_format[1], <<"{">>)
            THEN <<ValidationError("Format", "Warning",
                        <<"C","o","n","s","i","d","e","r"," ","f","o","l","l","o","w","i","n","g"," ","t","h","e"," ","r","e","c","o","m","m","e","n","d","e","d"," ","t","i","t","l","e"," ","f","o","r","m","a","t",":"," ">> \o title_format[1],
                        None, Some("title-format"), None)>>
            ELSE <<>>
    IN IF ~IsSome(document_type(doc)) THEN [errors |-> <<>>, warnings |-> <<>>]
       ELSE IF ~is_valid_document_type(loader, doc_type)
       THEN [errors |-> <<ValidationError("Schema", "Error",
                              <<"U","n","k","n","o","w","n"," ","d","o","c","u","m","e","n","t"," ","t","y","p","e",":"," ">> \o doc_type,
                              None, Some("valid-document-type"),
                              Some(<<"U","s","e"," ","'","f","o","r","g","e","p","o","i","n","t"," ","l","i","s","t","-","t","y","p","e","s","'"," ","t","o"," ","s","e","e"," ","a","v","a","i","l","a","b","l","e"," ","d","o","c","u","m","e","n","t"," ","t","y","p","e","s">>))>>,
             warnings |-> <<>>]
       ELSE [errors |-> schema_errors \o section_errors \o abstract_errors,
             warnings |-> title_warnings]

\* validate_document, "Validate ID format"
IdFormatChecks(doc) ==
    LET r == validate_id_format(doc)
    IN IF r.ok THEN <<>>
       ELSE <<ValidationError("Format", "Error", r.err, None, Some("id-format"),
                  Some(<<"U","s","e"," ","o","n","l","y"," ","l","o","w","e","r","c","a","s","e"," ","l","e","t","t","e","r","s",","," ","n","u","m","b","e","r","s",","," ","a","n","d"," ","h","y","p","h","e","n","s">>))>>

\* the lookup of validate_references
target_exists(document_index, ref_type, id) ==
    ref_type \in DOMAIN document_index /\ id \in DOMAIN document_index[ref_type]

\* the body of the loop of validate_references: the findings of one reference
ReferenceFinding(document_index, reference) ==
    IF reference.external
    THEN [errors |-> <<>>,
          warnings |-> <<ValidationError("Reference", "Warning",
                            <<"E","x","t","e","r","n","a","l"," ","r","e","f","e","r","e","n","c","e"," ","c","a","n","n","o","t"," ","b","e"," ","v","a","l","i","d","a","t","e","d",":"," ">>
                                \o reference.ref_type \o <<":">> \o reference.id,
                            LineLocation(reference.line_number),
                            Some("external-reference"), None)>>]
    ELSE IF ~target_exists(document_index, reference.ref_type, reference.id)
    THEN [errors |-> <<ValidationError("Reference", "Error",
                            <<"R","e","f","e","r","e","n","c","e"," ","t","o"," ","n","o","n","-","e","x","i","s","t","e","n","t"," ","d","o","c","u","m","e","n","t",":"," ">>
                                \o reference.ref_type \o <<":">> \o reference.id,
                            LineLocation(reference.line_number),
                            Some("reference-integrity"),
                            Some(<<"C","r","e","a","t","e"," ","t","h","e"," ","r","e","f","e","r","e","n","c","e","d"," ","d","o","c","u","m","e","n","t"," ","o","r"," ","f","i","x"," ","t","h","e"," ","r","e","f","e","r","e","n","c","e">>))>>,
          warnings |-> <<>>]
    ELSE [errors |-> <<>>, warnings |-> <<>>]

\* validate_references from the for loop on: one finding per reference
ReferenceFindings(document_index, extracted) ==
    IF extracted.panicked THEN extracted
    ELSE LET references == extracted.value
             Acc[i \in 0..Len(references)] ==
                 IF i = 0 THEN [errors |-> <<>>, warnings |-> <<>>]
                 ELSE LET f == ReferenceFinding(document_index, references[i])
                      IN [errors |-> Acc[i - 1].errors \o f.errors,
                          warnings |-> Acc[i - 1].warnings \o f.warnings]
         IN Returns(Acc[Len(references)])

\* validate_references: a panic of extract_cross_references unwinds through it
validate_references(document_index, doc) ==
    ReferenceFindings(document_index, extract_cross_references(doc))

\* the errors and warnings of validate_document once the cross-reference check is over
Collected(type_checks, id_checks, reference_errors) ==
    IF reference_errors.panicked THEN reference_errors
    ELSE Returns([errors |-> type_checks.errors \o id_checks
                                \o reference_errors.value.errors,
                  warnings |-> type_checks.warnings \o reference_errors.value.warnings])

\* validate_document from "let document_type" up to "Validate cross-references":
\* the errors and warnings collected before the document is indexed, or the panic
ValidateChecks(validator, doc) ==
    Collected(TypeChecks(validator.schema_loader, doc), IdFormatChecks(doc),
              validate_references(validator.document_index, doc))

\* index_document: the entry of (type, id) is inserted, or replaced if there is one
index_document(document_index, doc) ==
    LET doc_type == document_type(doc)
        doc_id == document_id(doc)
        docs == IF doc_type[1] \in DOMAIN document_index
                THEN document_index[doc_type[1]] ELSE EmptyMap
    IN IF IsSome(doc_type) /\ IsSome(doc_id)
       THEN MapInsert(document_index, doc_type[1],
                MapInsert(docs, doc_id[1], [file_path |-> doc.file_path, title |-> doc.title]))
       ELSE document_index

\* validate_document, the final ValidationResult
ValidationResult(doc, findings) ==
    [file_path |-> doc.file_path,
     document_type |-> document_type(doc),
     document_id |-> document_id(doc),
     valid |-> findings.errors = <<>>,
     errors |-> findings.errors,
     warnings |-> findings.warnings]

\* validate_document from index_document on: a panic of the checks has left the call
\* before it
Outcome(validator, doc, checks) ==
    IF checks.panicked
    THEN [panicked |-> TRUE, result |-> None, validator |-> validator]
    ELSE [panicked |-> FALSE,
          result |-> Some(ValidationResult(doc, checks.value)),
          validator |-> [validator EXCEPT !.document_index = index_document(@, doc)]]

\* validate_document as one call: whether it panicked, the result it returned (none if
\* it panicked), and the validator afterwards
validate_document(validator, doc) ==
    IF ~has_forgepoint_structure(doc)
    THEN [panicked |-> FALSE, result |-> Some(StructureFailure(doc)), validator |-> validator]
    ELSE Outcome(validator, doc, ValidateChecks(validator, doc))

\* the enumerations of a finite set: the orders in which a HashMap may be iterated
Perms(S) ==
    {p \in [1..Cardinality(S) -> S] : \A i, j \in 1..Cardinality(S) : p[i] = p[j] => i = j}

\* the ids of the index
IndexIds(document_index) == UNION {DOMAIN document_index[t] : t \in DOMAIN document_index}

\* the orders in which "for (doc_id, doc_info) in docs" may visit the inner map of each
\* type: for every type an enumeration of the ids of that type
IdOrders(document_index) ==
    {o \in [DOMAIN document_index
              -> UNION {Perms(DOMAIN document_index[t]) : t \in DOMAIN document_index}] :
        \A t \in DOMAIN document_index : o[t] \in Perms(DOMAIN document_index[t])}

\* clear_index
clear_index(validator) == [validator EXCEPT !.document_index = EmptyMap]

RECURSIVE CollectIds(_, _, _, _, _)
\* check_id_uniqueness, "Collect all IDs": the types are visited in type_order and the
\* ids of a type in id_order[type]; the result is all_ids
CollectIds(document_index, type_order, id_order, i, all_ids) ==
    IF i > Len(type_order) THEN all_ids
    ELSE LET doc_type == type_order[i]
             ids == id_order[doc_type]
             Inner[k \in 0..Len(ids)] ==
                 IF k = 0 THEN all_ids
                 ELSE LET prev == Inner[k - 1]
                          old == IF ids[k] \in DOMAIN prev THEN prev[ids[k]] ELSE <<>>
                      IN MapInsert(prev, ids[k],
                            Append(old, [doc_type |-> doc_type,
                                         file_path |-> document_index[doc_type][ids[k]].file_path]))
         IN CollectIds(document_index, type_order, id_order, i + 1, Inner[Len(ids)])

\* check_id_uniqueness, "Find duplicates", for one id of all_ids
DuplicateErrors(id, occurrences) ==
    IF Len(occurrences) > 1
    THEN [k \in 1..Len(occurrences) |->
            LET others == SeqFilter(occurrences,
                                    LAMBDA o : o.file_path # occurrences[k].file_path)
                other_occurrences ==
                    [j \in 1..Len(others) |-> others[j].doc_type \o <<" ","i","n"," ">> \o others[j].file_path]
            IN ValidationError("IdConflict", "Error",
                   <<"D","u","p","l","i","c","a","t","e"," ","I","D"," ","'">> \o id \o <<"'"," ","f","o","u","n","d"," ","i","n"," ">> \o occurrences[k].doc_type
                       \o <<" ","(","c","o","n","f","l","i","c","t","s"," ","w","i","t","h"," ">> \o Join(other_occurrences, <<","," ">>) \o <<")">>,
                   None, Some("unique-ids"), Some(<<"C","h","a","n","g","e"," ","o","n","e"," ","o","f"," ","t","h","e"," ","c","o","n","f","l","i","c","t","i","n","g"," ","I","D","s">>))]
    ELSE <<>>

\* check_id_uniqueness under the iteration orders type_order, id_order (of document_index)
\* and all_order (of all_ids)
check_id_uniqueness(document_index, type_order, id_order, all_order) ==
    LET all_ids == CollectIds(document_index, type_order, id_order, 1, EmptyMap)
        Out[i \in 0..Len(all_order)] ==
            IF i = 0 THEN <<>>
            ELSE Out[i - 1] \o DuplicateErrors(all_order[i], all_ids[all_order[i]])
    IN Out[Len(all_order)]

-----------------------------------------------------------------------------
(* linter.rs / cli.rs : the helpers of the batch *)

\* create_parse_error_result, and the same literal in lint_command
create_parse_error_result(file_path, error) ==
    [file_path |-> file_path,
     document_type |-> None,
     document_id |-> None,
     valid |-> FALSE,
     errors |-> <<ValidationError("Format", "Error", <<"F","a","i","l","e","d"," ","t","o"," ","p","a","r","s","e"," ","f","i","l","e",":"," ">> \o error,
                      None, Some("file-parsing"), None)>>,
     warnings |-> <<>>]

\* "Add duplicate errors to affected results": the loop over error and result; every
\* result receives, in the order of duplicate_errors, the errors whose message
\* contains its document_id
AddDuplicateErrors(final_results, duplicate_errors) ==
    [i \in 1..Len(final_results) |->
        LET result == final_results[i]
            added == IF IsSome(result.document_id)
                     THEN SeqFilter(duplicate_errors,
                                    LAMBDA error : Contains(error.message, result.document_id[1]))
                     ELSE <<>>
        IN [result EXCEPT !.errors = @ \o added,
                          !.valid = IF added # <<>> THEN FALSE ELSE @]]

-----------------------------------------------------------------------------
(* The inputs of a run *)

\* the number of files of the largest batch
MaxFiles == 2

\* the paths find_files returns: sorted and without duplicates
Paths == <<<<"a",".","a","d","o","c">>, <<"b",".","a","d","o","c">>, <<"c",".","a","d","o","c">>, <<"d",".","a","d","o","c">>>>

Header(title, type, id) ==
    <<<<"="," ">> \o title, <<":","f","o","r","g","e","p","o","i","n","t","-","t","y","p","e",":"," ">> \o type, <<":","i","d",":"," ">> \o id, <<":","s","c","h","e","m","a","-","v","e","r","s","i","o","n",":"," ","1",".","0">>>>

\* the file contents the batches are built from, as content.lines()
Contents ==
    { \* story login-flow, no reference
      Header(<<"L","o","g","i","n">>, <<"s","t","o","r","y">>, <<"l","o","g","i","n","-","f","l","o","w">>) \o <<<<>>, <<"=","="," ","C","o","n","t","e","x","t">>, <<"U","s","e","r","s"," ","s","i","g","n"," ","i","n",".">>>>,
      \* story checkout with an external reference to the id of the first
      Header(<<"C","h","e","c","k","o","u","t">>, <<"s","t","o","r","y">>, <<"c","h","e","c","k","o","u","t">>)
        \o <<<<"=","="," ","C","o","n","t","e","x","t">>, <<"S","e","e"," ","x","r","e","f",":","g","i","t","h","u","b",".","c","o","m","/","o","r","g","/","r","e","p","o","#","s","t","o","r","y",":","l","o","g","i","n","-","f","l","o","w","@","v","1","[","L","o","g","i","n","]">>>>,
      \* epic shop with internal references to story checkout and epic checkout
      Header(<<"S","h","o","p">>, <<"e","p","i","c">>, <<"s","h","o","p">>) \o <<<<"=","="," ","S","c","o","p","e">>, <<"N","e","e","d","s"," ","x","r","e","f",":","s","t","o","r","y",":","c","h","e","c","k","o","u","t","[","]"," ","a","n","d"," ","x","r","e","f",":","e","p","i","c",":","c","h","e","c","k","o","u","t","[","]",".">>>>,
      \* epic checkout: the id of the story under another type
      Header(<<"E","p","i","c">>, <<"e","p","i","c">>, <<"c","h","e","c","k","o","u","t">>) \o <<<<"=","="," ","S","c","o","p","e">>, <<"A","l","l"," ","o","f"," ","i","t",".">>>>,
      \* no schema-version attribute
      <<<<"="," ","D","r","a","f","t">>, <<":","f","o","r","g","e","p","o","i","n","t","-","t","y","p","e",":"," ","s","t","o","r","y">>, <<":","i","d",":"," ","c","h","e","c","k","o","u","t">>, <<"=","="," ","N","o","t","e","s">>>>,
      \* an id with an upper-case letter and an underscore, and a dangling reference
      Header(<<"B","a","d">>, <<"s","t","o","r","y">>, <<"B","a","d","_","I","D">>) \o <<<<"=","="," ","L","i","n","k","s">>, <<"x","r","e","f",":","s","t","o","r","y",":","m","i","s","s","i","n","g","[","]">>>> }

\* the io::Error of fs::read_to_string: the file has gone, it is a directory, its
\* bytes are not UTF-8
IoErrors ==
    {<<"N","o"," ","s","u","c","h"," ","f","i","l","e"," ","o","r"," ","d","i","r","e","c","t","o","r","y"," ","(","o","s"," ","e","r","r","o","r"," ","2",")">>, <<"I","s"," ","a"," ","d","i","r","e","c","t","o","r","y"," ","(","o","s"," ","e","r","r","o","r"," ","2","1",")">>,
     <<"s","t","r","e","a","m"," ","d","i","d"," ","n","o","t"," ","c","o","n","t","a","i","n"," ","v","a","l","i","d"," ","U","T","F","-","8">>}

\* a file of the batch: readable with one of the contents, or one that read_to_string
\* fails on
FileStates ==
    [readable : {TRUE}, content : Contents, error : {<<>>}]
    \cup [readable : {FALSE}, content : {<<>>}, error : IoErrors]

\* the batches: up to MaxFiles files under the first paths
Batches ==
    UNION {{[i \in 1..n |-> [path |-> Paths[i], readable |-> f[i].readable,
                              content |-> f[i].content, error |-> f[i].error]]
            : f \in [1..n -> FileStates]}
           : n \in 0..MaxFiles}

StoryType == [doc_type |-> <<"s","t","o","r","y">>, name |-> <<"U","s","e","r"," ","S","t","o","r","y">>, schema |-> <<"s","t","o","r","y",".","j","s","o","n">>]

StorySchema(state) ==
    [state |-> state, required |-> <<ATTR_TYPE, ATTR_ID>>,
     structural_requirements |-> NoStructuralRequirements]

\* the schema directories: without index.json, with an index whose schema file is
\* missing, and with an index whose schema file exists
SchemaDirs ==
    { [index |-> "missing", document_types |-> <<>>, files |-> EmptyMap],
      [index |-> "ok", document_types |-> <<StoryType>>,
       files |-> [f \in {<<"s","t","o","r","y",".","j","s","o","n">>} |-> StorySchema("missing")]],
      [index |-> "ok", document_types |-> <<StoryType>>,
       files |-> [f \in {<<"s","t","o","r","y",".","j","s","o","n">>} |-> StorySchema("ok")]] }

-----------------------------------------------------------------------------
(* lint_command: the state of one run *)

VARIABLES
    schema_dir,     \* the schema directory on disk
    files,          \* the files found by find_files
    check_ids,      \* !args.no_check_ids && config.rules.check_id_uniqueness
    pc,             \* where lint_command is: "start", "first_pass", "second_pass",
                    \* "done", "failed" (load_schemas returned an error) or
                    \* "panicked" (the panic of a worker came out of collect())
    validator,      \* the DocumentValidator inside the Mutex
    lock,           \* the file whose worker holds the MutexGuard, 0, or Poisoned
    task,           \* per file, where the closure of par_iter().map is: "todo",
                    \* "parsed", "locked", "returning", "done", "panicked"
                    \* (validate_document panicked) or "poisoned" (lock().unwrap()
                    \* panicked)
    docs,           \* per file, the parsed document
    results,        \* per file, the ValidationResult of the closure
    final_results,  \* the Vec collected from the first pass
    schema_loader,  \* a SchemaLoader that a caller of the library owns
    text,           \* the content handed to parse_content, as content.lines()
    document,       \* the ForgepointDocument parse_content returned, if any
    ret,            \* the last call of a library function and what it returned, if any
    locals          \* the locals of a call of parse_content that is inside its line loop

vars == <<schema_dir, files, check_ids, pc, validator, lock, task, docs,
          results, final_results, schema_loader, text, document, ret, locals>>

inputs == <<schema_dir, files, check_ids>>

\* the state of the direct calls of the library, which lint_command does not touch
library == <<schema_loader, text, document, ret, locals>>

FileIds == 1..Len(files)

Init ==
    /\ schema_dir \in SchemaDirs
    /\ files \in Batches
    /\ check_ids \in BOOLEAN
    /\ pc = "start"
    /\ validator = DocumentValidator_new(SchemaLoader_new)
    /\ lock = 0
    /\ task = [i \in 1..Len(files) |-> "todo"]
    /\ docs = [i \in 1..Len(files) |-> None]
    /\ results = [i \in 1..Len(files) |-> None]
    /\ final_results = <<>>
    /\ schema_loader = SchemaLoader_new
    /\ text = <<>>
    /\ document = None
    /\ ret = None
    /\ locals = None

\* lint_command up to the first pass: load_schemas, find_files, the empty check,
\* Mutex::new(DocumentValidator::new(schema_loader))
StartLint ==
    /\ pc = "start"
    /\ LET loaded == load_schemas(SchemaLoader_new, schema_dir)
       IN IF ~loaded.ok
          THEN pc' = "failed" /\ UNCHANGED validator
          ELSE IF files = <<>>
          THEN pc' = "done" /\ UNCHANGED validator
          ELSE pc' = "first_pass" /\ validator' = DocumentValidator_new(loaded.loader)
    /\ UNCHANGED <<inputs, lock, task, docs, results, final_results>>
    /\ UNCHANGED library

\* the closure of the first pass: parser.parse_file(file_path)
ParseFile(i) ==
    /\ pc = "first_pass"
    /\ task[i] = "todo"
    /\ LET parsed == parse_file(files[i])
       IN IF parsed.ok
          THEN /\ docs' = [docs EXCEPT ![i] = parsed.doc]
               /\ task' = [task EXCEPT ![i] = "parsed"]
               /\ UNCHANGED results
          ELSE /\ results' = [results EXCEPT ![i] =
                                Some(create_parse_error_result(files[i].path, parsed.err))]
               /\ task' = [task EXCEPT ![i] = "done"]
               /\ UNCHANGED docs
    /\ UNCHANGED <<inputs, pc, validator, lock, final_results>>
    /\ UNCHANGED library

\* the state of a Mutex whose guard was dropped by a panicking thread
Poisoned == 0 - 1

\* a lock that excludes nobody
free_always(l) == l # Poisoned

\* validator.lock() returns the guard only while no other guard exists
free(l) == l = 0

\* the MutexGuard goes out of scope
unlock(l) == 0

\* validator.lock().unwrap(): the guard, or the panic of unwrap() on the PoisonError
Lock(i) ==
    /\ pc = "first_pass"
    /\ task[i] = "parsed"
    /\ \/ /\ free(lock)
          /\ lock' = i
          /\ task' = [task EXCEPT ![i] = "locked"]
       \/ /\ lock = Poisoned
          /\ task' = [task EXCEPT ![i] = "poisoned"]
          /\ UNCHANGED lock
    /\ UNCHANGED <<inputs, pc, validator, docs, results, final_results>>
    /\ UNCHANGED library

\* validate_document under the guard; when it panics the guard is dropped in the
\* unwinding, which poisons the Mutex
Validate(i) ==
    /\ pc = "first_pass"
    /\ task[i] = "locked"
    /\ \E r \in {validate_document(validator, docs[i][1])} :
          IF r.panicked
          THEN /\ task' = [task EXCEPT ![i] = "panicked"]
               /\ lock' = Poisoned
               /\ UNCHANGED <<validator, results>>
          ELSE /\ validator' = r.validator
               /\ results' = [results EXCEPT ![i] = r.result]
               /\ task' = [task EXCEPT ![i] = "returning"]
               /\ UNCHANGED lock
    /\ UNCHANGED <<inputs, pc, docs, final_results>>
    /\ UNCHANGED library

\* the end of the match arm: the guard is dropped and the closure returns
Release(i) ==
    /\ pc = "first_pass"
    /\ task[i] = "returning"
    /\ lock' = unlock(lock)
    /\ task' = [task EXCEPT ![i] = "done"]
    /\ UNCHANGED <<inputs, pc, validator, docs, results, final_results>>
    /\ UNCHANGED library

\* a collect() that takes the results as soon as they are computed
AllCollected_computed(t) == \A i \in DOMAIN t : t[i] \in {"returning", "done"}

\* collect() returns when the closure has returned for every file
AllCollected(t) == \A i \in DOMAIN t : t[i] = "done"

\* a collect() that returns the results last file first
collect_reversed(rs) == [i \in 1..Len(rs) |-> rs[Len(rs) + 1 - i][1]]

\* par_iter().map(..).collect() into a Vec: the result of the closure for the i-th file
\* is the i-th element
collect(rs) == [i \in 1..Len(rs) |-> rs[i][1]]

Collect ==
    /\ pc = "first_pass"
    /\ AllCollected(task)
    /\ final_results' = collect(results)
    /\ pc' = IF check_ids THEN "second_pass" ELSE "done"
    /\ UNCHANGED <<inputs, validator, lock, task, docs, results>>
    /\ UNCHANGED library

\* the second pass: validator.into_inner(), check_id_uniqueness, the loop that adds
\* the duplicate errors
SecondPass ==
    /\ pc = "second_pass"
    /\ \E type_order \in Perms(DOMAIN validator.document_index) :
       \E id_order \in IdOrders(validator.document_index) :
       \E all_order \in Perms(IndexIds(validator.document_index)) :
          final_results' = AddDuplicateErrors(final_results,
              check_id_uniqueness(validator.document_index, type_order, id_order, all_order))
    /\ pc' = "done"
    /\ UNCHANGED <<inputs, validator, lock, task, docs, results>>
    /\ UNCHANGED library

\* the panic of a closure comes out of collect() when every closure has returned or
\* panicked, and unwinds lint_command
Unwind ==
    /\ pc = "first_pass"
    /\ \A i \in FileIds : task[i] \in {"done", "panicked", "poisoned"}
    /\ \E i \in FileIds : task[i] \in {"panicked", "poisoned"}
    /\ pc' = "panicked"
    /\ UNCHANGED <<inputs, validator, lock, task, docs, results, final_results>>
    /\ UNCHANGED library

Next ==
    \/ StartLint
    \/ \E i \in FileIds : ParseFile(i)
    \/ \E i \in FileIds : Lock(i)
    \/ \E i \in FileIds : Validate(i)
    \/ \E i \in FileIds : Release(i)
    \/ Collect
    \/ SecondPass
    \/ Unwind

Spec == Init /\ [][Next]_vars

-----------------------------------------------------------------------------
(* lint_command on batches of documents that refer to each other *)

\* the file contents of these batches, as content.lines()
BatchContents ==
    { \* story self-ref with an internal reference to itself
      Header(<<"S","e","l","f">>, <<"s","t","o","r","y">>, <<"s","e","l","f","-","r","e","f">>) \o <<<<"=","="," ","C","o","n","t","e","x","t">>, <<"S","e","e"," ","x","r","e","f",":","s","t","o","r","y",":","s","e","l","f","-","r","e","f","[","]",".">>>>,
      \* story self, whose id is a part of the id of the first, with a reference to the first
      Header(<<"O","t","h","e","r">>, <<"s","t","o","r","y">>, <<"s","e","l","f">>) \o <<<<"=","="," ","C","o","n","t","e","x","t">>, <<"A","f","t","e","r"," ","x","r","e","f",":","s","t","o","r","y",":","s","e","l","f","-","r","e","f","[","]",".">>>>,
      \* epic self-ref: the id of the first under another type
      Header(<<"E","p","i","c">>, <<"e","p","i","c">>, <<"s","e","l","f","-","r","e","f">>) \o <<<<"=","="," ","S","c","o","p","e">>, <<"A","l","l"," ","o","f"," ","i","t",".">>>>,
      \* type and id of the first, no schema-version attribute
      <<<<"="," ","D","r","a","f","t">>, <<":","f","o","r","g","e","p","o","i","n","t","-","t","y","p","e",":"," ","s","t","o","r","y">>, <<":","i","d",":"," ","s","e","l","f","-","r","e","f">>, <<"=","="," ","N","o","t","e","s">>>>,
      \* an id with an upper-case letter and an underscore
      Header(<<"B","a","d">>, <<"s","t","o","r","y">>, <<"B","a","d","_","I","D">>) \o <<<<"=","="," ","C","o","n","t","e","x","t">>, <<"T","e","x","t",".">>>> }

BatchFileStates ==
    [readable : {TRUE}, content : BatchContents, error : {<<>>}]
    \cup [readable : {FALSE}, content : {<<>>}, error : IoErrors]

\* the characters of the paths in the order of their bytes
ByteOrder == <<<<".">>, <<"a">>, <<"b">>, <<"c">>, <<"d">>, <<"o">>>>

ByteRank(c) == CHOOSE k \in 1..Len(ByteOrder) : ByteOrder[k] = <<c>>

\* Ord for PathBuf, on these paths the order of the bytes: p < q
RECURSIVE PathLess(_, _)
PathLess(p, q) ==
    IF q = <<>> THEN FALSE
    ELSE IF p = <<>> THEN TRUE
    ELSE IF p[1] # q[1] THEN ByteRank(p[1]) < ByteRank(q[1])
    ELSE PathLess(Tail(p), Tail(q))

\* Vec::dedup: of consecutive equal elements the first is kept
RECURSIVE dedup(_)
dedup(xs) ==
    IF Len(xs) <= 1 THEN xs
    ELSE IF xs[1] = xs[2] THEN dedup(Tail(xs))
    ELSE <<xs[1]>> \o dedup(Tail(xs))

\* find_files from the paths the glob patterns matched, in the order they matched:
\* files.sort(); files.dedup();
find_files(matched) == dedup(SortSeq(matched, PathLess))

\* what the patterns match: up to MaxFiles paths among the first MaxFiles, in any
\* order, a path also twice
Matched == UNION {[1..n -> {Paths[k] : k \in 1..MaxFiles}] : n \in 0..MaxFiles}

LinkedBatches ==
    UNION {{[i \in 1..Len(find_files(m)) |->
                [path |-> find_files(m)[i], readable |-> f[i].readable,
                 content |-> f[i].content, error |-> f[i].error]]
            : f \in [1..Len(find_files(m)) -> BatchFileStates]}
           : m \in Matched}

\* a schema directory with which load_schemas succeeds on a new loader: the index names
\* story, and story.json is missing
InitBatch ==
    /\ schema_dir = [index |-> "ok", document_types |-> <<StoryType>>,
                     files |-> [f \in {<<"s","t","o","r","y",".","j","s","o","n">>} |-> StorySchema("missing")]]
    /\ files \in LinkedBatches
    /\ check_ids \in BOOLEAN
    /\ pc = "start"
    /\ validator = DocumentValidator_new(SchemaLoader_new)
    /\ lock = 0
    /\ task = [i \in 1..Len(files) |-> "todo"]
    /\ docs = [i \in 1..Len(files) |-> None]
    /\ results = [i \in 1..Len(files) |-> None]
    /\ final_results = <<>>
    /\ schema_loader = SchemaLoader_new
    /\ text = <<>>
    /\ document = None
    /\ ret = None
    /\ locals = None

SpecBatch == InitBatch /\ [][Next]_vars

-----------------------------------------------------------------------------
(* Direct calls of the parser and of the document queries *)

\* the number of lines of the longest drawn content
MaxLines == 4

\* the length of the longest drawn id
MaxIdLen == 3

\* the sequences over S of length at most n
SeqsUpTo(S, n) == UNION {[1..k -> S] : k \in 0..n}

\* lines of a document body: a title, headings of level 2 (one with padding) and 3,
\* a line of two markers that is no heading, text, a blank line
SectionLines == {<<"="," ","T">>, <<"=","="," ","A">>, <<"=","="," ","B">>, <<"=","="," "," ","C"," ">>, <<"=","=","="," ","D">>, <<"=","=","x">>, <<"t","e","x","t">>, <<>>}

\* lines around an abstract: the marker (also indented), text (one with padding), a line
\* that starts with '=' and is no heading, a bracket-style marker, a blank line
AbstractLines == {<<"[","a","b","s","t","r","a","c","t","]">>, <<" ","[","a","b","s","t","r","a","c","t","]">>, <<"o","n","e">>, <<" ","t","w","o"," ">>, <<"=","x">>, <<"[","N","O","T","E","]">>, <<>>}

IdAlphabet == {"a", "1", "-", "B", "_"}

NamedIds == {<<"m","y","-","i","d">>, <<"-","b","a","d">>, <<"b","a","d","-">>, <<"b","a","-","-","d">>, <<"B","a","d","_","I","D">>}

Ids == SeqsUpTo(IdAlphabet, MaxIdLen) \cup NamedIds

\* the contents handed to parse_content: bodies of sections, abstract blocks after the
\* first marker line, and headers that declare an id
Texts ==
    SeqsUpTo(SectionLines, MaxLines)
    \cup {pre \o <<<<"[","a","b","s","t","r","a","c","t","]">>>> \o body :
             pre \in {<<>>, <<<<"o","n","e">>>>}, body \in SeqsUpTo(AbstractLines, MaxLines)}
    \cup {Header(<<"T">>, <<"s","t","o","r","y">>, id) : id \in Ids}

\* the variables of lint_command
pipeline == <<pc, validator, lock, task, docs, results, final_results>>

\* no lint_command is running
NoLint ==
    /\ files = <<>>
    /\ check_ids = FALSE
    /\ pc = "idle"
    /\ validator = DocumentValidator_new(SchemaLoader_new)
    /\ lock = 0
    /\ task = <<>>
    /\ docs = <<>>
    /\ results = <<>>
    /\ final_results = <<>>

InitDocument ==
    /\ NoLint
    /\ schema_dir = [index |-> "missing", document_types |-> <<>>, files |-> EmptyMap]
    /\ schema_loader = SchemaLoader_new
    /\ text \in Texts
    /\ document = None
    /\ ret = None
    /\ locals = None

\* DocumentParser::new().parse_content(text, "a.adoc")
Call_parse_content ==
    /\ document = None
    /\ document' = Some(parse_content(text, <<"a",".","a","d","o","c">>))
    /\ UNCHANGED <<inputs, pipeline, schema_loader, text, ret, locals>>

\* document.validate_id_format()
Call_validate_id_format ==
    /\ IsSome(document)
    /\ ret' = Some([op |-> "validate_id_format", result |-> validate_id_format(document[1])])
    /\ UNCHANGED <<inputs, pipeline, schema_loader, text, document, locals>>

\* document.level_2_sections()
Call_level_2_sections ==
    /\ IsSome(document)
    /\ ret' = Some([op |-> "level_2_sections", result |-> level_2_sections(document[1])])
    /\ UNCHANGED <<inputs, pipeline, schema_loader, text, document, locals>>

\* document.abstract_content()
Call_abstract_content ==
    /\ IsSome(document)
    /\ ret' = Some([op |-> "abstract_content", result |-> abstract_content(document[1])])
    /\ UNCHANGED <<inputs, pipeline, schema_loader, text, document, locals>>

NextDocument ==
    \/ Call_parse_content
    \/ Call_validate_id_format
    \/ Call_level_2_sections
    \/ Call_abstract_content

SpecDocument == InitDocument /\ [][NextDocument]_vars

-----------------------------------------------------------------------------
(* parse_content, one line of its loop at a time *)

ParserLines == {<<"="," ","T">>, <<"="," ","U">>, <<":","k",":"," ","v">>, <<":","j",":"," ","w">>, <<"=","="," ","A">>, <<"=","=","="," "," ","D"," ">>, <<" ","x"," ">>, <<>>}

ParserTexts == SeqsUpTo(ParserLines, MaxLines)

InitParser ==
    /\ NoLint
    /\ schema_dir = [index |-> "missing", document_types |-> <<>>, files |-> EmptyMap]
    /\ schema_loader = SchemaLoader_new
    /\ text \in ParserTexts
    /\ document = None
    /\ ret = None
    /\ locals = None

\* parse_content is entered: the locals before the first line; line_no counts the
\* lines the loop has taken
ParseBegin ==
    /\ locals = None /\ document = None
    /\ locals' = Some([st |-> ParseInit, line_no |-> 0])
    /\ UNCHANGED <<inputs, pipeline, schema_loader, text, document, ret>>

\* one iteration of for (line_no, line) in lines.iter().enumerate()
ParseLine ==
    /\ IsSome(locals) /\ locals[1].line_no < Len(text)
    /\ locals' = Some([st |-> ParseStep(locals[1].st, text[locals[1].line_no + 1],
                                        locals[1].line_no + 1),
                       line_no |-> locals[1].line_no + 1])
    /\ UNCHANGED <<inputs, pipeline, schema_loader, text, document, ret>>

\* the loop is over: the last section is pushed and the document returned
ParseReturn ==
    /\ IsSome(locals) /\ locals[1].line_no = Len(text)
    /\ document' = Some(ParseFinish(locals[1].st, text, <<"a",".","a","d","o","c">>))
    /\ locals' = None
    /\ UNCHANGED <<inputs, pipeline, schema_loader, text, ret>>

NextParser == ParseBegin \/ ParseLine \/ ParseReturn

SpecParser == InitParser /\ [][NextParser]_vars

-----------------------------------------------------------------------------
(* Direct calls of validate_document on a validator whose loader knows the type story *)

MaxBody == 3

\* story.json with these structuralRequirements
StorySchemaWith(title, sections, abstract_req) ==
    [state |-> "ok", required |-> <<ATTR_TYPE, ATTR_ID>>,
     structural_requirements |->
        [title |-> title, sections |-> sections, abstract_req |-> abstract_req]]

TitleRequirements ==
    {None} \cup {Some([required |-> None, format |-> f, description |-> None])
                 : f \in {Some(<<"{","i","d","}",":"," ","{","t","i","t","l","e","}">>), Some(<<"A"," ","s","h","o","r","t"," ","t","i","t","l","e">>)}}

SectionRequirementsSet ==
    {None} \cup {Some([required |-> r, optional |-> None, description |-> None])
                 : r \in {Some(<<<<"C","o","n","t","e","x","t">>>>), Some(<<<<"C","o","n","t","e","x","t">>, <<"S","c","o","p","e">>>>)}}

AbstractRequirements ==
    {None} \cup {Some([required |-> r, description |-> None]) : r \in {Some(TRUE), Some(FALSE)}}

ValidatorSchemas ==
    {StorySchemaWith(t, s, a) :
        t \in TitleRequirements, s \in SectionRequirementsSet, a \in AbstractRequirements}

\* the loader after load_schemas on a directory whose index names story and has no
\* story.json, and again once story.json has been written
ReloadedLoader(schema) ==
    LET dir(file) == [index |-> "ok", document_types |-> <<StoryType>>,
                      files |-> [f \in {<<"s","t","o","r","y",".","j","s","o","n">>} |-> file]]
        first == load_schemas(SchemaLoader_new, dir(StorySchema("missing")))
    IN load_schemas(first.loader, dir(schema)).loader

\* the loaders handed to DocumentValidator::new: one that knows no type, and those that
\* know story under each schema
ValidatorLoaders == {SchemaLoader_new} \cup {ReloadedLoader(schema) : schema \in ValidatorSchemas}

ValidatorLines ==
    {<<"=","="," ","C","o","n","t","e","x","t">>, <<"=","=","="," ","C","o","n","t","e","x","t">>, <<"=","="," ","S","c","o","p","e">>, <<"[","a","b","s","t","r","a","c","t","]">>, <<"S","u","m","m","a","r","y",".">>}

ValidatorTexts ==
    {Header(<<"L","o","g","i","n">>, <<"s","t","o","r","y">>, id) \o body :
        id \in {<<"l","o","g","i","n">>, <<"B","a","d","_","I","D">>}, body \in SeqsUpTo(ValidatorLines, MaxBody)}

InitValidator ==
    /\ schema_dir = [index |-> "missing", document_types |-> <<>>, files |-> EmptyMap]
    /\ files = <<>>
    /\ check_ids = FALSE
    /\ pc = "idle"
    /\ validator \in {DocumentValidator_new(loader) : loader \in ValidatorLoaders}
    /\ lock = 0
    /\ task = <<>>
    /\ docs = <<>>
    /\ results = <<>>
    /\ final_results = <<>>
    /\ schema_loader = SchemaLoader_new
    /\ text \in ValidatorTexts
    /\ document = None
    /\ ret = None
    /\ locals = None

\* validator.validate_document(&document)
Call_validate_document ==
    /\ IsSome(document) /\ ret = None
    /\ \E r \in {validate_document(validator, document[1])} :
          /\ validator' = r.validator
          /\ ret' = Some([op |-> "validate_document", before |-> validator,
                          panicked |-> r.panicked, result |-> r.result])
    /\ UNCHANGED <<inputs, pc, lock, task, docs, results, final_results,
                   schema_loader, text, document, locals>>

\* validator.clear_index()
Call_clear_index ==
    /\ validator' = clear_index(validator)
    /\ UNCHANGED <<inputs, pc, lock, task, docs, results, final_results,
                   schema_loader, text, document, ret, locals>>

NextValidator == Call_parse_content \/ Call_validate_document \/ Call_clear_index

SpecValidator == InitValidator /\ [][NextValidator]_vars

-----------------------------------------------------------------------------
(* Direct calls of is_asciidoc_content, on contents of about twenty lines and less *)

MaxPad == 21

MaxTail == 3

MarkupLines ==
    {<<"="," ","T">>, <<" ","=","=","x">>, <<":","t","o","c",":">>, <<":","k",":"," ","v">>, <<"/","/"," ","x","r","e","f",":","a">>, <<"x","r","e","f",":","a","[","]">>, <<"s","e","e"," ","<","<","a",">",">">>, <<"p","l","a","i","n">>}

\* the numbers of lines without indicator that a content begins with: none, or about
\* as many as is_asciidoc_content looks at
PadLengths == {0} \cup {n \in 1..MaxPad : n + MaxTail >= MaxPad}

MarkupTexts ==
    {[k \in 1..n |-> <<"p","l","a","i","n">>] \o tail : n \in PadLengths, tail \in SeqsUpTo(MarkupLines, MaxTail)}

InitContent ==
    /\ NoLint
    /\ schema_dir = [index |-> "missing", document_types |-> <<>>, files |-> EmptyMap]
    /\ schema_loader = SchemaLoader_new
    /\ text \in MarkupTexts
    /\ document = None
    /\ ret = None
    /\ locals = None

\* DocumentParser::is_asciidoc_content(content)
Call_is_asciidoc_content ==
    /\ ret = None
    /\ ret' = Some([op |-> "is_asciidoc_content", result |-> is_asciidoc_content(text)])
    /\ UNCHANGED <<inputs, pipeline, schema_loader, text, document, locals>>

NextContent == Call_is_asciidoc_content

SpecContent == InitContent /\ [][NextContent]_vars

-----------------------------------------------------------------------------
(* Direct calls of a SchemaLoader, with the schema directory changing between them *)

EpicType == [doc_type |-> <<"e","p","i","c">>, name |-> <<"E","p","i","c">>, schema |-> <<"e","p","i","c",".","j","s","o","n">>]

\* epic.json: an abstract and a section "Scope" are required
EpicSchema(state) ==
    [state |-> state, required |-> <<ATTR_TYPE, ATTR_ID>>,
     structural_requirements |->
        [title |-> None,
         sections |-> Some([required |-> Some(<<<<"S","c","o","p","e">>>>), optional |-> None,
                            description |-> None]),
         abstract_req |-> Some([required |-> Some(TRUE), description |-> None])]]

SchemaFileStates == {"missing", "malformed", "uncompilable", "ok"}

\* the schema directories: without index.json, with one that is not JSON, with an
\* index that names story only, and with an index that names story and epic, each
\* schema file in each of its states
LoaderDirs ==
    {[index |-> i, document_types |-> <<>>, files |-> EmptyMap] : i \in {"missing", "malformed"}}
    \cup {[index |-> "ok", document_types |-> <<StoryType>>,
           files |-> [f \in {<<"s","t","o","r","y",".","j","s","o","n">>} |-> StorySchema(a)]] : a \in SchemaFileStates}
    \cup {[index |-> "ok", document_types |-> <<StoryType, EpicType>>,
           files |-> [f \in {<<"s","t","o","r","y",".","j","s","o","n">>, <<"e","p","i","c",".","j","s","o","n">>} |->
                         IF f = <<"s","t","o","r","y",".","j","s","o","n">> THEN StorySchema(a) ELSE EpicSchema(b)]]
          : a \in SchemaFileStates, b \in SchemaFileStates}

\* the type names asked for
AskedTypes == {<<"s","t","o","r","y">>, <<"e","p","i","c">>, <<"i","n","v","a","l","i","d">>}

InitLoader ==
    /\ NoLint
    /\ schema_dir \in LoaderDirs
    /\ schema_loader = SchemaLoader_new
    /\ text = <<>>
    /\ document = None
    /\ ret = None
    /\ locals = None

\* schema_loader.load_schemas()
Call_load_schemas ==
    /\ LET r == load_schemas(schema_loader, schema_dir)
       IN /\ schema_loader' = r.loader
          /\ ret' = Some([op |-> "load_schemas", dir |-> schema_dir,
                          before |-> schema_loader, result |-> [ok |-> r.ok, err |-> r.err]])
    /\ UNCHANGED <<inputs, pipeline, text, document, locals>>

\* schema_loader.is_valid_document_type(doc_type)
Call_is_valid_document_type(doc_type) ==
    /\ ret' = Some([op |-> "is_valid_document_type", doc_type |-> doc_type,
                    result |-> is_valid_document_type(schema_loader, doc_type)])
    /\ UNCHANGED <<inputs, pipeline, schema_loader, text, document, locals>>

\* files of the schema directory are written or removed between two calls
WriteSchemaDir ==
    /\ schema_dir' \in LoaderDirs \ {schema_dir}
    /\ UNCHANGED <<files, check_ids, pipeline, library>>

NextLoader ==
    \/ Call_load_schemas
    \/ \E doc_type \in AskedTypes : Call_is_valid_document_type(doc_type)
    \/ WriteSchemaDir

SpecLoader == InitLoader /\ [][NextLoader]_vars

-----------------------------------------------------------------------------
(* linter.rs : ForgepointLinter, whose schema_loader is the variable schema_loader *)

\* lint_file: the validator is built on SchemaLoader::new(&self.config.schema_path),
\* not on self.schema_loader
lint_file(linter_schema_loader, file) ==
    LET parsed == parse_file(file)
    IN IF parsed.ok
       THEN [p \in {"panicked", "result"} |->
                validate_document(DocumentValidator_new(SchemaLoader_new), parsed.doc[1])[p]]
       ELSE [panicked |-> FALSE,
             result |-> Some(create_parse_error_result(file.path, parsed.err))]

\* the files handed to lint_file: an epic with its required section and abstract, an
\* epic without them, a story
LinterTexts ==
    { Header(<<"S","h","o","p">>, <<"e","p","i","c">>, <<"s","h","o","p">>) \o <<<<"[","a","b","s","t","r","a","c","t","]">>, <<"S","u","m","m","a","r","y",".">>, <<>>, <<"=","="," ","S","c","o","p","e">>, <<"A","l","l",".">>>>,
      Header(<<"S","h","o","p">>, <<"e","p","i","c">>, <<"s","h","o","p">>) \o <<<<"=","="," ","N","o","t","e","s">>, <<"N","o","n","e",".">>>>,
      Header(<<"L","o","g","i","n">>, <<"s","t","o","r","y">>, <<"l","o","g","i","n">>) \o <<<<"=","="," ","C","o","n","t","e","x","t">>, <<"U","s","e","r","s"," ","s","i","g","n"," ","i","n",".">>>> }

\* ForgepointLinter::new
InitLinter ==
    /\ NoLint
    /\ schema_dir \in LoaderDirs
    /\ schema_loader = SchemaLoader_new
    /\ text \in LinterTexts
    /\ document = None
    /\ ret = None
    /\ locals = None

\* linter.initialize()
Call_initialize ==
    /\ \E r \in {load_schemas(schema_loader, schema_dir)} :
          /\ schema_loader' = r.loader
          /\ ret' = Some([op |-> "initialize", result |-> [ok |-> r.ok, err |-> r.err]])
    /\ UNCHANGED <<inputs, pipeline, text, document, locals>>

\* linter.lint_file(file_path), for a file with the content text or one that
\* read_to_string fails on
Call_lint_file ==
    /\ \E file \in [path : {<<"a",".","a","d","o","c">>}, readable : {TRUE}, content : {text}, error : {<<>>}]
                    \cup [path : {<<"a",".","a","d","o","c">>}, readable : {FALSE}, content : {<<>>},
                          error : IoErrors] :
       \E r \in {lint_file(schema_loader, file)} :
          ret' = Some([op |-> "lint_file", readable |-> file.readable,
                       panicked |-> r.panicked, result |-> r.result])
    /\ UNCHANGED <<inputs, pipeline, schema_loader, text, document, locals>>

NextLinter ==
    \/ Call_initialize
    \/ Call_lint_file
    \/ WriteSchemaDir

SpecLinter == InitLinter /\ [][NextLinter]_vars

-----------------------------------------------------------------------------
(* Vocabulary of the properties *)

\* file i was read and parsed
Parsed(i) == docs[i] # None

\* the closure of file i has its result
Returned(i) == results[i] # None

\* the document lacks one of the three required attributes
LacksRequiredAttribute(doc) ==
    \E a \in {<<"f","o","r","g","e","p","o","i","n","t","-","t","y","p","e">>, <<"i","d">>, <<"s","c","h","e","m","a","-","v","e","r","s","i","o","n">>} : a \notin DOMAIN doc.attributes

\* the document declares this type and this id
Declares(doc, type, id) ==
    /\ <<"f","o","r","g","e","p","o","i","n","t","-","t","y","p","e">> \in DOMAIN doc.attributes /\ doc.attributes[<<"f","o","r","g","e","p","o","i","n","t","-","t","y","p","e">>] = type
    /\ <<"i","d">> \in DOMAIN doc.attributes /\ doc.attributes[<<"i","d">>] = id

OfType(found, error_type) == SeqFilter(found, LAMBDA e : e.error_type = error_type)

WithRule(found, rule) == SeqFilter(found, LAMBDA e : e.rule = Some(rule))

\* file i was parsed and has the three required attributes
Structured(i) == Parsed(i) /\ ~LacksRequiredAttribute(docs[i][1])

\* the call of validate_document for file i is over: it returned or it panicked
ValidateOver(i) == Parsed(i) /\ task[i] \in {"returning", "done", "panicked"}

\* this step is the call of validate_document for file i
ValidateStep(i) == task[i] = "locked" /\ task'[i] # "locked"

\* lint_command is over: it returned after its passes, or a panic unwound it
Over == pc \in {"done", "panicked"}

\* the references written in the document without a '#' part
InternalRefs(doc) == SeqFilter(ReferencesFrom(doc.content, 1), LAMBDA r : ~r.external)

\* the references written in the document with a '#' part
ExternalRefs(doc) == SeqFilter(ReferencesFrom(doc.content, 1), LAMBDA r : r.external)

\* the index holds an entry under exactly this type and this id
Indexed(type, id) ==
    \E t \in DOMAIN validator.document_index :
        t = type /\ \E d \in DOMAIN validator.document_index[t] : d = id

\* non-empty, only a-z, 0-9 and '-', no '-' at either end, no "--"
WellFormedId(id) ==
    /\ id # <<>>
    /\ \A k \in 1..Len(id) : id[k] \in Lower \cup Digit \cup {"-"}
    /\ id[1] # "-" /\ id[Len(id)] # "-"
    /\ \A k \in 1..(Len(id) - 1) : ~(id[k] = "-" /\ id[k + 1] = "-")

-----------------------------------------------------------------------------
(* Properties *)

\* C1 as claimed: a document that lacks one of the three required attributes gets
\* valid = false, exactly one error (Structure, rule "require-structure") and no warning.
C1_RuleRequireStructure ==
    \A i \in FileIds :
        (ValidateOver(i) /\ LacksRequiredAttribute(docs[i][1])) =>
            /\ Returned(i)
            /\ LET r == results[i][1] IN
               /\ r.valid = FALSE
               /\ Len(r.errors) = 1
               /\ r.errors[1].error_type = "Structure"
               /\ r.errors[1].rule = Some("require-structure")
               /\ r.warnings = <<>>

\* C1: for a document that lacks one of the three required attributes validate_document
\* returns valid = false, exactly one error (Structure, rule
\* "require-forgepoint-structure") and no warning; no later check adds a finding,
\* neither in validate_document nor in the second pass.
C1_StructureShortCircuit ==
    \A i \in FileIds :
        (ValidateOver(i) /\ LacksRequiredAttribute(docs[i][1])) =>
            /\ Returned(i)
            /\ LET r == results[i][1] IN
               /\ r.valid = FALSE
               /\ Len(r.errors) = 1
               /\ r.errors[1].error_type = "Structure"
               /\ r.errors[1].severity = "Error"
               /\ r.errors[1].rule = Some("require-forgepoint-structure")
               /\ r.warnings = <<>>
               /\ (i <= Len(final_results) => final_results[i] = r)

\* a finished batch with a file that has a type and an id, but no schema-version
C1_Witness ==
    /\ pc = "done" /\ check_ids
    /\ \E i \in FileIds :
        /\ Parsed(i) /\ Returned(i)
        /\ <<"s","c","h","e","m","a","-","v","e","r","s","i","o","n">> \notin DOMAIN docs[i][1].attributes
        /\ <<"f","o","r","g","e","p","o","i","n","t","-","t","y","p","e">> \in DOMAIN docs[i][1].attributes
        /\ <<"i","d">> \in DOMAIN docs[i][1].attributes
        /\ Len(final_results[i].errors) = 1

\* C2: when two files of a batch have the required structure and declare the same type
\* and the same id, the batch ends with its two passes done and the final result of
\* each holds an IdConflict error that names the path of the other.
C2_DuplicateIdBothReported ==
    (Over /\ check_ids) =>
        \A i, j \in FileIds :
            (/\ i # j /\ Structured(i) /\ Structured(j)
             /\ Declares(docs[j][1], docs[i][1].attributes[<<"f","o","r","g","e","p","o","i","n","t","-","t","y","p","e">>],
                         docs[i][1].attributes[<<"i","d">>]))
            => /\ pc = "done"
               /\ \E e \in Range(final_results[i].errors) :
                     e.error_type = "IdConflict" /\ Contains(e.message, files[j].path)

\* C3: when file a holds an internal reference and a file b, later in the order of the
\* batch, has the required structure and declares the referenced type and id, the batch
\* ends with a final result of a that holds no Reference error for that reference.
C3_ForwardReferenceResolved ==
    Over =>
        \A a, b \in FileIds :
            (a < b /\ Structured(a) /\ Structured(b)) =>
                \A r \in Range(InternalRefs(docs[a][1])) :
                    Declares(docs[b][1], r.ref_type, r.id) =>
                        /\ pc = "done"
                        /\ ~\E e \in Range(final_results[a].errors) :
                              /\ e.error_type = "Reference"
                              /\ e.message = <<"R","e","f","e","r","e","n","c","e"," ","t","o"," ","n","o","n","-","e","x","i","s","t","e","n","t"," ","d","o","c","u","m","e","n","t",":"," ">>
                                               \o r.ref_type \o <<":">> \o r.id

\* C4: in every ValidationResult, as returned by the closure of the first pass (from
\* validate_document or for a parse failure) and as left by the duplicate-ID pass,
\* valid is true exactly if errors is empty.
C4_ValidIffNoErrors ==
    /\ \A i \in FileIds :
          Returned(i) => (results[i][1].valid <=> results[i][1].errors = <<>>)
    /\ \A k \in 1..Len(final_results) :
          final_results[k].valid <=> final_results[k].errors = <<>>

\* the duplicate-ID pass has run over the result of validate_document for one file and
\* the result made for the parse failure of another
C4_Witness ==
    /\ pc = "done" /\ check_ids
    /\ \E i, j \in FileIds :
        /\ ~files[i].readable /\ Parsed(j)
        /\ final_results[i].errors[1].error_type = "Format"
        /\ final_results[j].errors[1].error_type = "Structure"
        /\ ~final_results[i].valid /\ ~final_results[j].valid

C5_Results ==
    pc \in {"second_pass", "done", "panicked"} =>
        /\ pc # "panicked"
        /\ Len(final_results) = Len(files)
        /\ \A i \in FileIds :
              /\ final_results[i].file_path = files[i].path
              /\ ~files[i].readable =>
                    /\ final_results[i].valid = FALSE
                    /\ Len(final_results[i].errors) = 1
                    /\ final_results[i].errors[1].error_type = "Format"
                    /\ final_results[i].errors[1].severity = "Error"
                    /\ final_results[i].warnings = <<>>

C5_Isolated ==
    \A i \in FileIds :
        (task[i] = "todo" /\ task'[i] = "done") =>
            /\ ~files[i].readable
            /\ validator' = validator
            /\ pc' = pc
            /\ \A j \in FileIds \ {i} : results'[j] = results[j] /\ task'[j] = task[j]

\* C5: a batch over N files yields N results, the i-th for the i-th file; a file that
\* cannot be parsed yields valid = false with exactly one Format error, and the step
\* that fails leaves the batch running, the index and every other result as they were.
C5_ParseFailureIsolated == []C5_Results /\ [][C5_Isolated]_vars

C6_Step ==
    \A i \in FileIds :
        (ValidateStep(i) /\ Structured(i) /\ ExternalRefs(docs[i][1]) # <<>>) =>
            /\ task'[i] = "returning"
            /\ LET ext == ExternalRefs(docs[i][1])
                   found == results'[i][1]
                   ws == OfType(found.warnings, "Reference")
               IN /\ Len(ws) = Len(ext)
                  /\ \A k \in 1..Len(ext) :
                        /\ ws[k].severity = "Warning"
                        /\ ws[k].message = <<"E","x","t","e","r","n","a","l"," ","r","e","f","e","r","e","n","c","e"," ","c","a","n","n","o","t"," ","b","e"," ","v","a","l","i","d","a","t","e","d",":"," ">>
                                             \o ext[k].ref_type \o <<":">> \o ext[k].id
                        /\ ws[k].location[1].line = ext[k].line_number
                  /\ \A e \in Range(found.errors) : e.severity = "Error"
                  /\ Len(OfType(found.errors, "Reference")) <= Len(InternalRefs(docs[i][1]))
                  /\ found.valid = (found.errors = <<>>)

\* C6: the call of validate_document for a document with external references returns
\* a result whose Reference warnings are, in order, one per external reference of the
\* document, whatever the index holds; every error has severity Error and the Reference
\* errors are no more than the internal references, so no external reference adds an
\* error, and the result is valid if it has no error.
C6_ExternalReferenceWarns == [][C6_Step]_vars

C7_Step ==
    \A i \in FileIds :
        (ValidateStep(i) /\ Structured(i) /\ InternalRefs(docs[i][1]) # <<>>) =>
            /\ task'[i] = "returning"
            /\ LET unresolved == SeqFilter(InternalRefs(docs[i][1]),
                                           LAMBDA r : ~Indexed(r.ref_type, r.id))
                   es == OfType(results'[i][1].errors, "Reference")
               IN /\ Len(es) = Len(unresolved)
                  /\ \A k \in 1..Len(unresolved) :
                        /\ es[k].severity = "Error"
                        /\ es[k].message = <<"R","e","f","e","r","e","n","c","e"," ","t","o"," ","n","o","n","-","e","x","i","s","t","e","n","t"," ","d","o","c","u","m","e","n","t",":"," ">>
                                             \o unresolved[k].ref_type \o <<":">> \o unresolved[k].id
                        /\ es[k].location[1].line = unresolved[k].line_number
                  /\ Len(OfType(results'[i][1].warnings, "Reference"))
                        = Len(ExternalRefs(docs[i][1]))

\* C7: the call of validate_document for a document with internal references returns a
\* result whose Reference errors are, in order, one per internal reference whose type
\* and id have no entry in the index at the time of the call; an entry with the same id
\* under another type does not count, and an internal reference adds no warning.
C7_InternalReferenceLookup == [][C7_Step]_vars

\* C8: the second pass runs only when the closure of every file has returned and the
\* lock is free: no file is being parsed or validated during or after it.
C8_SecondPassAfterBarrier ==
    pc \in {"second_pass", "done"} =>
        /\ \A i \in FileIds : task[i] = "done" /\ Returned(i)
        /\ lock = 0

\* the second pass is about to start after validate_document has run, under the lock,
\* for each of two files
C8_Witness ==
    /\ pc = "second_pass"
    /\ Len(files) = 2
    /\ \A i \in FileIds : Parsed(i) /\ Returned(i)

C9_OneInside ==
    /\ Cardinality({i \in FileIds : task[i] \in {"locked", "returning"}}) <= 1
    /\ \A i \in FileIds : task[i] \in {"locked", "returning"} => lock = i

C9_Held ==
    /\ (validator' # validator /\ pc # "start") =>
          \E i \in FileIds : lock = i /\ ValidateStep(i)
    /\ \A i \in FileIds :
          ValidateStep(i) =>
              \A j \in FileIds \ {i} : task'[j] = task[j] /\ results'[j] = results[j]

\* C9: at most one worker is inside validate_document and it holds the lock; only the
\* call of the worker that holds the lock changes the validator, and no other worker
\* moves during that call.
C9_ValidateIsCriticalSection == []C9_OneInside /\ [][C9_Held]_vars

\* one worker inside validate_document while another waits for the lock
C9_Witness ==
    \E i, j \in FileIds : i # j /\ task[i] = "locked" /\ lock = i /\ task[j] = "parsed"

C10_Step ==
    \A i \in FileIds :
        (/\ ValidateStep(i) /\ Structured(i)
         /\ docs[i][1].attributes[<<"f","o","r","g","e","p","o","i","n","t","-","t","y","p","e">>]
                \notin DOMAIN validator.schema_loader.compiled_schemas) =>
            /\ task'[i] = "returning"
            /\ LET r == results'[i][1]
                   doc == docs[i][1]
                   unresolved == SeqFilter(InternalRefs(doc),
                                           LAMBDA ref : ~Indexed(ref.ref_type, ref.id))
               IN /\ Len(OfType(r.errors, "Schema")) = 1
                  /\ OfType(r.errors, "Schema")[1].rule = Some("valid-document-type")
                  /\ OfType(r.errors, "Schema")[1].message
                        = <<"U","n","k","n","o","w","n"," ","d","o","c","u","m","e","n","t"," ","t","y","p","e",":"," ">> \o doc.attributes[<<"f","o","r","g","e","p","o","i","n","t","-","t","y","p","e">>]
                  /\ OfType(r.warnings, "Schema") = <<>>
                  /\ \A e \in Range(r.errors \o r.warnings) :
                        e.rule \notin {Some("schema-validation"), Some("required-sections"),
                                       Some("required-abstract"), Some("title-format")}
                  /\ Len(WithRule(r.errors, "id-format"))
                        = IF WellFormedId(doc.attributes[<<"i","d">>]) THEN 0 ELSE 1
                  /\ Len(WithRule(r.warnings, "external-reference")) = Len(ExternalRefs(doc))
                  /\ Len(WithRule(r.errors, "reference-integrity")) = Len(unresolved)
                  /\ Len(r.errors) = 1 + Len(WithRule(r.errors, "id-format")) + Len(unresolved)
                  /\ Len(r.warnings) = Len(ExternalRefs(doc))

\* C10: for a document with the required structure and a type the loader has no schema
\* for, validate_document returns a result with exactly one Schema error, the
\* unknown-type one, no finding of the type-dependent checks, an id-format error exactly
\* if the id is malformed, one warning per external reference and one
\* reference-integrity error per internal reference without a target in the index, and
\* nothing else.
C10_UnknownTypeSkipsTypeChecks == [][C10_Step]_vars

\* the files of the batch that have the required structure: the occurrences
\* (type, source_path) of their ids
Occurrences == {i \in FileIds : Structured(i)}

\* the occurrences of the id of occurrence i in other files
OtherOccurrences(i) ==
    {j \in Occurrences \ {i} : docs[j][1].attributes[<<"i","d">>] = docs[i][1].attributes[<<"i","d">>]}

\* C11: a batch with duplicate checking ends with its two passes done, and
\* check_id_uniqueness returns on the index they leave, under every iteration order of
\* its maps, as many errors as there are occurrences of ids that occur in more than one
\* file; for each such occurrence one IdConflict error names its id and its type, lists
\* every other occurrence of the id as "type in path" and not its own path.
C11_OneConflictPerOccurrence ==
    (Over /\ check_ids /\ Occurrences # {}) =>
        /\ pc = "done"
        /\ \A type_order \in Perms(DOMAIN validator.document_index) :
           \A all_order \in Perms(IndexIds(validator.document_index)) :
           \A id_order \in IdOrders(validator.document_index) :
               LET errs == check_id_uniqueness(validator.document_index,
                                               type_order, id_order, all_order)
                   dups == {i \in Occurrences : OtherOccurrences(i) # {}}
               IN /\ Len(errs) = Cardinality(dups)
                  /\ \A i \in dups :
                        \E e \in Range(errs) :
                           /\ e.error_type = "IdConflict"
                           /\ StartsWith(e.message,
                                 <<"D","u","p","l","i","c","a","t","e"," ","I","D"," ","'">> \o docs[i][1].attributes[<<"i","d">>]
                                    \o <<"'"," ","f","o","u","n","d"," ","i","n"," ">> \o docs[i][1].attributes[<<"f","o","r","g","e","p","o","i","n","t","-","t","y","p","e">>]
                                    \o <<" ","(","c","o","n","f","l","i","c","t","s"," ","w","i","t","h"," ">>)
                           /\ ~Contains(e.message, files[i].path)
                           /\ \A j \in OtherOccurrences(i) :
                                 Contains(e.message,
                                     docs[j][1].attributes[<<"f","o","r","g","e","p","o","i","n","t","-","t","y","p","e">>]
                                        \o <<" ","i","n"," ">> \o files[j].path)

C12_Entries ==
    /\ \A t \in DOMAIN validator.document_index :
          \A d \in DOMAIN validator.document_index[t] :
              \E i \in Occurrences :
                  /\ ValidateOver(i)
                  /\ Declares(docs[i][1], t, d)
                  /\ validator.document_index[t][d]
                        = [file_path |-> files[i].path, title |-> docs[i][1].title]
    /\ \A i \in Occurrences :
          ValidateOver(i) =>
              Indexed(docs[i][1].attributes[<<"f","o","r","g","e","p","o","i","n","t","-","t","y","p","e">>], docs[i][1].attributes[<<"i","d">>])

C12_Insert ==
    /\ validator'.document_index # validator.document_index =>
          \E i \in FileIds : ValidateStep(i)
    /\ \A i \in FileIds :
          (ValidateStep(i) /\ Structured(i)) =>
              /\ task'[i] = "returning"
              /\ LET type == docs[i][1].attributes[<<"f","o","r","g","e","p","o","i","n","t","-","t","y","p","e">>]
                     id == docs[i][1].attributes[<<"i","d">>]
                     old == validator.document_index
                     new == validator'.document_index
                 IN /\ DOMAIN new = DOMAIN old \cup {type}
                    /\ DOMAIN new[type]
                          = (IF type \in DOMAIN old THEN DOMAIN old[type] ELSE {}) \cup {id}
                    /\ new[type][id] = [file_path |-> files[i].path, title |-> docs[i][1].title]
                    /\ \A t \in DOMAIN old : \A d \in DOMAIN old[t] :
                          (t # type \/ d # id) => new[t][d] = old[t][d]

\* C12: every entry of the index holds the path and the title of a validated document
\* that has the required structure and declares the type and id of the entry, and every
\* such document has its pair in the index; only a call of validate_document changes the
\* index, it writes the entry of the document it validates, replacing one that exists,
\* and leaves the other entries.
C12_IndexHoldsLatest == []C12_Entries /\ [][C12_Insert]_vars

\* the last call was this function of the parsed document
Called(op) == IsSome(ret) /\ ret[1].op = op

\* the parsed document declares this id
HasId(id) == IsSome(document) /\ document_id(document[1]) = Some(id)

\* C13: validate_id_format succeeds exactly if the document has an id that is non-empty,
\* consists of a-z, 0-9 and '-' only, has no '-' at either end and no "--"; it accepts
\* "my-id" and rejects "-bad", "bad-", "ba--d" and "Bad_ID" with InvalidIdFormat.
C13_IdFormatAccepted ==
    Called("validate_id_format") =>
        LET oid == document_id(document[1]) IN
        /\ ret[1].result.ok <=> (IsSome(oid) /\ WellFormedId(oid[1]))
        /\ ~ret[1].result.ok => StartsWith(ret[1].result.err, <<"I","n","v","a","l","i","d"," ","I","D"," ","f","o","r","m","a","t",":"," ">>)
        /\ HasId(<<"m","y","-","i","d">>) => ret[1].result.ok
        /\ \A id \in {<<"-","b","a","d">>, <<"b","a","d","-">>, <<"b","a","-","-","d">>, <<"B","a","d","_","I","D">>} : HasId(id) => ~ret[1].result.ok

\* "ba--d", whose only fault is the pair of hyphens, has been rejected
C13_Witness ==
    /\ Called("validate_id_format")
    /\ HasId(<<"b","a","-","-","d">>)
    /\ ~ret[1].result.ok

\* C14: when validate_id_format rejects an id, its message is that of a rule the id
\* violates: the character rule (^[a-z0-9-]+$), the rule on a hyphen at either end, or
\* the rule on consecutive hyphens.
C14_ReasonIsViolatedRule ==
    (Called("validate_id_format") /\ ~ret[1].result.ok /\ IsSome(document_id(document[1]))) =>
        LET id == document_id(document[1])[1]
            err == ret[1].result.err
        IN \/ /\ err = <<"I","n","v","a","l","i","d"," ","I","D"," ","f","o","r","m","a","t",":"," ","I","D"," ","'">> \o id
                         \o <<"'"," ","m","u","s","t"," ","c","o","n","t","a","i","n"," ","o","n","l","y"," ","l","o","w","e","r","c","a","s","e"," ","l","e","t","t","e","r","s",","," ","n","u","m","b","e","r","s",","," ","a","n","d"," ","h","y","p","h","e","n","s">>
              /\ \/ id = <<>>
                 \/ \E k \in 1..Len(id) : id[k] \notin Lower \cup Digit \cup {"-"}
           \/ /\ err = <<"I","n","v","a","l","i","d"," ","I","D"," ","f","o","r","m","a","t",":"," ","I","D"," ","c","a","n","n","o","t"," ","s","t","a","r","t"," ","o","r"," ","e","n","d"," ","w","i","t","h"," ","a"," ","h","y","p","h","e","n">>
              /\ id # <<>>
              /\ id[1] = "-" \/ id[Len(id)] = "-"
           \/ /\ err = <<"I","n","v","a","l","i","d"," ","I","D"," ","f","o","r","m","a","t",":"," ","I","D"," ","c","a","n","n","o","t"," ","c","o","n","t","a","i","n"," ","c","o","n","s","e","c","u","t","i","v","e"," ","h","y","p","h","e","n","s">>
              /\ \E k \in 1..(Len(id) - 1) : id[k] = "-" /\ id[k + 1] = "-"

\* an id that breaks all three rules at once has been rejected
C14_Witness ==
    /\ Called("validate_id_format")
    /\ HasId(<<"-","-","B">>)
    /\ ~ret[1].result.ok

\* the line is a heading with two marker characters: "==", then whitespace, then
\* at least one more character
IsLevel2Heading(line) ==
    Len(line) >= 4 /\ line[1] = "=" /\ line[2] = "=" /\ line[3] \in Whitespace

\* the numbers of the lines of the content that are headings with two markers, in order
Level2Lines(lines) ==
    SeqFilter([k \in 1..Len(lines) |-> k], LAMBDA k : IsLevel2Heading(lines[k]))

\* C18: level_2_sections of a parsed document returns one section per heading line with
\* two markers, in the order of the lines, each with level 2, the trimmed text of the
\* heading as title and the number of its line; for the headings "== A" and "== B" the
\* titles are "A", "B", whatever lies between them.
C18_Level2SectionsInOrder ==
    Called("level_2_sections") =>
        LET heads == Level2Lines(text)
            found == ret[1].result
        IN /\ Len(found) = Len(heads)
           /\ \A n \in 1..Len(heads) :
                 /\ found[n].level = 2
                 /\ found[n].title = Trim(SubSeq(text[heads[n]], 3, Len(text[heads[n]])))
                 /\ found[n].line_number = Some(heads[n])
           /\ [n \in 1..Len(heads) |-> text[heads[n]]] = <<<<"=","="," ","A">>, <<"=","="," ","B">>>>
                 => [n \in 1..Len(found) |-> found[n].title] = <<<<"A">>, <<"B">>>>

\* "== A" and "== B" with text and a deeper heading between them: the titles are A, B
C18_Witness ==
    /\ Called("level_2_sections")
    /\ text = <<<<"=","="," ","A">>, <<"t","e","x","t">>, <<"=","=","="," ","D">>, <<"=","="," ","B">>>>
    /\ [n \in 1..Len(ret[1].result) |-> ret[1].result[n].title] = <<<<"A">>, <<"B">>>>

\* the line is an abstract marker line
IsMarker(line) == Trim(line) = <<"[","a","b","s","t","r","a","c","t","]">>

\* the line starts with '[' and ends with ']'
IsBracketStyle(line) == line # <<>> /\ line[1] = "[" /\ line[Len(line)] = "]"

\* line p is the first marker line and is followed by two non-blank lines and a blank one
MarkerThenTwoLines(p) ==
    /\ p + 3 <= Len(text)
    /\ IsMarker(text[p])
    /\ \A q \in 1..(p - 1) : ~IsMarker(text[q])
    /\ ~IsBlank(text[p + 1]) /\ ~IsBlank(text[p + 2])
    /\ IsBlank(text[p + 3])

\* C20 as claimed: without a marker line abstract_content returns none; when the first
\* marker line is followed by two non-blank lines, neither a heading nor a bracket-style
\* marker, and then a blank line, it returns exactly the two lines joined by a newline.
C20_TwoLinesAsWritten ==
    Called("abstract_content") =>
        /\ (\A p \in 1..Len(text) : ~IsMarker(text[p])) => ret[1].result = None
        /\ \A p \in 1..Len(text) :
              (/\ MarkerThenTwoLines(p)
               /\ \A q \in {p + 1, p + 2} :
                     SectionCapture(text[q]) = None /\ ~IsBracketStyle(text[q]))
              => ret[1].result = Some(text[p + 1] \o <<"\n">> \o text[p + 2])

\* C20: without a marker line abstract_content returns none; when the first marker line
\* is followed by two non-blank lines, neither a marker line nor starting with '=' nor
\* bracket-style, and then a blank line, it returns the two lines joined by a newline,
\* with the whitespace at the start and at the end of the joined text removed.
C20_AbstractContent ==
    Called("abstract_content") =>
        /\ (\A p \in 1..Len(text) : ~IsMarker(text[p])) => ret[1].result = None
        /\ \A p \in 1..Len(text) :
              (/\ MarkerThenTwoLines(p)
               /\ \A q \in {p + 1, p + 2} :
                     /\ ~IsMarker(text[q])
                     /\ text[q][1] # "="
                     /\ ~IsBracketStyle(text[q]))
              => ret[1].result = Some(Trim(text[p + 1] \o <<"\n">> \o text[p + 2]))

\* a padded line and a plain one after the marker, then a blank line and more text
C20_Witness ==
    /\ Called("abstract_content")
    /\ text = <<<<"o","n","e">>, <<"[","a","b","s","t","r","a","c","t","]">>, <<" ","t","w","o"," ">>, <<"o","n","e">>, <<>>, <<"o","n","e">>>>
    /\ ret[1].result = Some(<<"t","w","o"," ","\n","o","n","e">>)

\* the schema file of this type of the index, as the call of load_schemas saw it
FileSeen(dt) == ret[1].dir.files[dt.schema].state

\* C15: when load_schemas is called with an index that names a type whose schema file
\* exists and compiles (and no schema file of the index is broken), it succeeds, and
\* afterwards that type is a valid document type with a compiled schema, while a type
\* outside the index is not valid.
C15_LoadMakesTypesKnown ==
    (/\ Called("load_schemas")
     /\ ret[1].dir.index = "ok"
     /\ \E dt \in Range(ret[1].dir.document_types) : FileSeen(dt) = "ok"
     /\ \A dt \in Range(ret[1].dir.document_types) : FileSeen(dt) \in {"missing", "ok"}) =>
        /\ ret[1].result.ok
        /\ \A dt \in Range(ret[1].dir.document_types) :
              FileSeen(dt) = "ok" =>
                 /\ is_valid_document_type(schema_loader, dt.doc_type)
                 /\ IsSome(get_schema(schema_loader, dt.doc_type))
        /\ ~is_valid_document_type(schema_loader, <<"i","n","v","a","l","i","d">>)

\* C16: load_schemas called without an index file fails with FileNotFound and leaves
\* the registry and the compiled schemas of the loader as they were.
C16_MissingIndexFileNotFound ==
    (Called("load_schemas") /\ ret[1].dir.index = "missing") =>
        /\ ~ret[1].result.ok
        /\ ret[1].result.err = "FileNotFound"
        /\ schema_loader = ret[1].before

\* a loader that had a registry and a compiled schema has been asked to load again
\* after the index was removed
C16_Witness ==
    /\ Called("load_schemas") /\ ret[1].dir.index = "missing"
    /\ IsSome(ret[1].before.registry)
    /\ ret[1].before.compiled_schemas # EmptyMap
    /\ ~ret[1].result.ok

\* C17: when load_schemas is called with an index of which one type has no schema file
\* and the others have one that exists and compiles, it succeeds, and afterwards the
\* type without a file is not a valid document type and the others are.
C17_MissingSchemaFileSkipped ==
    (/\ Called("load_schemas")
     /\ ret[1].dir.index = "ok"
     /\ \E dt \in Range(ret[1].dir.document_types) : FileSeen(dt) = "missing"
     /\ \A dt \in Range(ret[1].dir.document_types) : FileSeen(dt) \in {"missing", "ok"}) =>
        /\ ret[1].result.ok
        /\ \A dt \in Range(ret[1].dir.document_types) :
              is_valid_document_type(schema_loader, dt.doc_type) <=> FileSeen(dt) = "ok"

\* the number of marker characters the line starts with
MarkerCount(line) == RunEnd(line, 1, {"="}) - 1

\* markers, then whitespace, then at least one more character
HasHeadingPattern(line) ==
    /\ MarkerCount(line) >= 1
    /\ Len(line) >= MarkerCount(line) + 2
    /\ line[MarkerCount(line) + 1] \in Whitespace

\* what follows the markers of a line of heading pattern, trimmed
HeadingText(line) == Trim(SubSeq(line, MarkerCount(line) + 1, Len(line)))

\* the numbers of the lines that match the heading pattern, in order
PatternLines(lines) ==
    SeqFilter([k \in 1..Len(lines) |-> k], LAMBDA k : HasHeadingPattern(lines[k]))

\* the number of the line consumed as the title: the first line of heading pattern when
\* it has a single marker; 0 when there is none
TitleLine(lines) ==
    LET heads == PatternLines(lines)
    IN IF heads # <<>> /\ MarkerCount(lines[heads[1]]) = 1 THEN heads[1] ELSE 0

\* the numbers of the heading lines: those of heading pattern but the title line, in order
HeadingLines(lines) ==
    SeqFilter(PatternLines(lines), LAMBDA k : k # TitleLine(lines))

\* the numbers of the lines of body text that come before every heading line: not blank,
\* not of heading pattern, not of attribute form
BodyBeforeHeadings(lines) ==
    SeqFilter([k \in 1..Len(lines) |-> k],
              LAMBDA k : /\ ~IsBlank(lines[k])
                         /\ ~HasHeadingPattern(lines[k])
                         /\ AttributeCapture(lines[k]) = None
                         /\ \A n \in 1..Len(HeadingLines(lines)) : HeadingLines(lines)[n] > k)

\* C21: when a parsed text has body text before any heading line, the document has a
\* section of level 0 titled "Content" that starts at the first line of that text and
\* holds it.
C21_SyntheticContentSection ==
    (IsSome(document) /\ BodyBeforeHeadings(text) # <<>>) =>
        \E n \in 1..Len(document[1].sections) :
            LET s == document[1].sections[n]
            IN /\ s.level = 0
               /\ s.title = <<"C","o","n","t","e","n","t">>
               /\ s.line_number = Some(BodyBeforeHeadings(text)[1])
               /\ s.content = Join([k \in 1..Len(BodyBeforeHeadings(text)) |->
                                        text[BodyBeforeHeadings(text)[k]]], <<"\n">>)

\* the sections the parser has made so far: those of the returned document, or those
\* pushed and the open one while the loop runs
SectionsSoFar ==
    IF IsSome(document) THEN document[1].sections
    ELSE IF IsSome(locals)
    THEN locals[1].st.sections \o locals[1].st.current_section
    ELSE <<>>

\* C22: every section the parser makes has a line number, and its level is positive and
\* equal to the number of marker characters at the start of that line.
C22_LevelIsMarkerCount ==
    \A n \in 1..Len(SectionsSoFar) :
        LET s == SectionsSoFar[n]
        IN /\ IsSome(s.line_number)
           /\ s.line_number[1] \in 1..Len(text)
           /\ s.level >= 1
           /\ s.level = MarkerCount(text[s.line_number[1]])

\* a returned document with sections of one, two and three markers
C22_Witness ==
    /\ IsSome(document)
    /\ [n \in 1..Len(document[1].sections) |-> document[1].sections[n].level] = <<1, 2, 3>>

\* a step of the line loop: the locals before and after it
LoopStep == IsSome(locals) /\ IsSome(locals')

\* the line a step of the loop takes, and its number
StepLineNumber == locals[1].line_no + 1

StepLine == text[StepLineNumber]

\* C26, the outcome: the title of the returned document is the trimmed text of the first
\* line of title pattern that comes before any heading, and none when there is no such line.
C26_TitleOfFirstTitleLine ==
    IsSome(document) =>
        document[1].title = IF TitleLine(text) = 0 THEN None
                            ELSE Some(HeadingText(text[TitleLine(text)]))

\* C26, the steps: once a title is captured, or the header is left, no line changes the title.
C26_NoRecapture ==
    LoopStep =>
        ((IsSome(locals[1].st.title) \/ ~locals[1].st.in_header)
            => locals'[1].st.title = locals[1].st.title)

\* C26: the title is captured at most once and only in the header.
C26_TitleCapturedOnce == []C26_TitleOfFirstTitleLine /\ [][C26_NoRecapture]_vars

\* a second line of title pattern follows the title line: the title is that of the first
C26_Witness ==
    /\ IsSome(document)
    /\ TitleLine(text) # 0
    /\ \E k \in (TitleLine(text) + 1)..Len(text) :
          /\ HasHeadingPattern(text[k]) /\ MarkerCount(text[k]) = 1
          /\ HeadingText(text[k]) # HeadingText(text[TitleLine(text)])
    /\ document[1].title = Some(HeadingText(text[TitleLine(text)]))

\* the number of the first heading line, or one more than the number of lines
HeaderEnd(lines) ==
    IF HeadingLines(lines) = <<>> THEN Len(lines) + 1 ELSE HeadingLines(lines)[1]

\* the numbers of the lines of attribute form in the header, in order
HeaderAttributeLines(lines) ==
    SeqFilter([k \in 1..Len(lines) |-> k],
              LAMBDA k : k < HeaderEnd(lines) /\ IsSome(AttributeCapture(lines[k])))

\* C27, the outcome: the attributes of the returned document are those of the attribute
\* lines of the header, before or after the title line, the last line of a key giving its
\* value.
C27_AttributesOfHeader ==
    IsSome(document) =>
        LET rec == HeaderAttributeLines(text)
            key(n) == Trim(AttributeCapture(text[rec[n]])[1].key)
            value(n) == Trim(AttributeCapture(text[rec[n]])[1].value)
        IN /\ DOMAIN document[1].attributes = {key(n) : n \in 1..Len(rec)}
           /\ \A n \in 1..Len(rec) :
                 (\A m \in (n + 1)..Len(rec) : key(m) # key(n))
                     => document[1].attributes[key(n)] = value(n)

\* C27, the steps: outside the header no line changes the attributes, and a line of
\* attribute form is appended to the content of the open section.
C27_FixedOutsideHeader ==
    (LoopStep /\ ~locals[1].st.in_header) =>
        /\ locals'[1].st.attributes = locals[1].st.attributes
        /\ IsSome(AttributeCapture(StepLine)) =>
              /\ IsSome(locals[1].st.current_section)
              /\ IsSome(locals'[1].st.current_section)
              /\ locals'[1].st.current_section[1].content =
                    IF locals[1].st.current_section[1].content = <<>> THEN StepLine
                    ELSE locals[1].st.current_section[1].content \o <<"\n">> \o StepLine

\* C27: attribute lines are recorded only in the header.
C27_AttributesOnlyInHeader == []C27_AttributesOfHeader /\ [][C27_FixedOutsideHeader]_vars

\* an attribute line after the title is recorded, one after the heading is content
C27_Witness ==
    /\ IsSome(document)
    /\ text = <<<<"="," ","T">>, <<":","k",":"," ","v">>, <<"=","="," ","A">>, <<":","j",":"," ","w">>>>
    /\ DOMAIN document[1].attributes = {<<"k">>}
    /\ document[1].attributes[<<"k">>] = <<"v">>
    /\ document[1].sections[1].content = <<":","j",":"," ","w">>

\* C28, the outcome: the sections of the returned document are the heading lines of the
\* text, one to one and in order, each with the marker count as level, the trimmed
\* heading text as title and the number of the line.
C28_SectionsAreHeadings ==
    IsSome(document) =>
        LET heads == HeadingLines(text)
            found == document[1].sections
        IN /\ Len(found) = Len(heads)
           /\ \A n \in 1..Len(heads) :
                 /\ found[n].level = MarkerCount(text[heads[n]])
                 /\ found[n].title = HeadingText(text[heads[n]])
                 /\ found[n].line_number = Some(heads[n])

\* C28, the steps: header mode never comes back; a heading line leaves it, pushes the
\* open section and opens a new one; the return pushes the open section.
C28_HeadingStep ==
    /\ LoopStep =>
          /\ ~locals[1].st.in_header => ~locals'[1].st.in_header
          /\ (HasHeadingPattern(StepLine) /\ StepLineNumber # TitleLine(text)) =>
                /\ ~locals'[1].st.in_header
                /\ locals'[1].st.sections =
                      locals[1].st.sections \o locals[1].st.current_section
                /\ locals'[1].st.current_section =
                      Some([level |-> MarkerCount(StepLine), title |-> HeadingText(StepLine),
                            content |-> <<>>, line_number |-> Some(StepLineNumber)])
    /\ (IsSome(locals) /\ IsSome(document')) =>
          document'[1].sections = locals[1].st.sections \o locals[1].st.current_section

\* C28: the sections correspond to the heading lines.
C28_OneSectionPerHeading == []C28_SectionsAreHeadings /\ [][C28_HeadingStep]_vars

\* a title, a heading, a second line of title pattern and a deeper heading
C28_Witness ==
    /\ IsSome(document)
    /\ text = <<<<"="," ","T">>, <<"=","="," ","A">>, <<"="," ","U">>, <<"=","=","="," "," ","D"," ">>>>
    /\ [n \in 1..3 |-> document[1].sections[n].title] = <<<<"A">>, <<"U">>, <<"D">>>>
    /\ [n \in 1..3 |-> document[1].sections[n].level] = <<2, 1, 3>>

\* the numbers of the lines between heading line number n and the next heading line
\* (or the end) that are not blank, in order
BodyLineNumbers(lines, n) ==
    LET heads == HeadingLines(lines)
        next == IF n < Len(heads) THEN heads[n + 1] ELSE Len(lines) + 1
    IN SeqFilter([k \in 1..Len(lines) |-> k],
                 LAMBDA k : k > heads[n] /\ k < next /\ ~IsBlank(lines[k]))

BodyLines(lines, n) ==
    [m \in 1..Len(BodyLineNumbers(lines, n)) |-> lines[BodyLineNumbers(lines, n)[m]]]

\* C29, the outcome: the content of each section is the non-blank lines between its
\* heading line and the next heading line (or the end), as written, joined by newlines.
C29_ContentOfSections ==
    IsSome(document) =>
        /\ Len(document[1].sections) = Len(HeadingLines(text))
        /\ \A n \in 1..Len(document[1].sections) :
              document[1].sections[n].content = Join(BodyLines(text, n), <<"\n">>)

\* C29, the steps: a blank line changes nothing.
C29_BlankSkipped == (LoopStep /\ IsBlank(StepLine)) => locals'[1].st = locals[1].st

\* C29: section content is the non-blank lines under the heading.
C29_SectionContent == []C29_ContentOfSections /\ [][C29_BlankSkipped]_vars

\* a blank line between two content lines, the second of attribute form
C29_Witness ==
    /\ IsSome(document)
    /\ text = <<<<"=","="," ","A">>, <<" ","x"," ">>, <<>>, <<":","k",":"," ","v">>>>
    /\ Len(document[1].sections) = 1
    /\ document[1].sections[1].content = <<" ","x"," ","\n",":","k",":"," ","v">>

\* validate_document was called on a document whose type the loader of the validator knew
KnownTypeValidated ==
    /\ Called("validate_document")
    /\ ~LacksRequiredAttribute(document[1])
    /\ document[1].attributes[<<"f","o","r","g","e","p","o","i","n","t","-","t","y","p","e">>]
          \in DOMAIN ret[1].before.schema_loader.compiled_schemas

\* the structuralRequirements of the schema of the type of the document
Requirements ==
    ret[1].before.schema_loader.compiled_schemas[document[1].attributes[<<"f","o","r","g","e","p","o","i","n","t","-","t","y","p","e">>]]
        .structural_requirements

\* the required section names of the type
RequiredNames ==
    IF IsSome(Requirements.sections) /\ IsSome(Requirements.sections[1].required)
    THEN Requirements.sections[1].required[1] ELSE <<>>

\* the titles of the headings with two markers of the text
Level2Titles == {HeadingText(text[Level2Lines(text)[n]]) : n \in 1..Len(Level2Lines(text))}

\* the required names that are the title of no heading with two markers, in order
MissingNames == SeqFilter(RequiredNames, LAMBDA name : name \notin Level2Titles)

\* the type requires an abstract
AbstractRequired ==
    /\ IsSome(Requirements.abstract_req)
    /\ Requirements.abstract_req[1].required = Some(TRUE)

\* C23: for a document of a known type validate_document returns a result with one
\* Structure error of rule required-sections per required section name that is the
\* title of no level-2 section, naming it; a section of that title at another level does
\* not count; and the later checks still run: the id format error is there exactly if
\* the id is ill-formed.
C23_MissingRequiredSections ==
    KnownTypeValidated =>
        /\ ~ret[1].panicked
        /\ LET found == WithRule(ret[1].result[1].errors, "required-sections")
           IN /\ Len(found) = Len(MissingNames)
              /\ \A n \in 1..Len(found) :
                    /\ found[n].error_type = "Structure"
                    /\ found[n].message = <<"M","i","s","s","i","n","g"," ","r","e","q","u","i","r","e","d"," ","s","e","c","t","i","o","n",":"," ">> \o MissingNames[n]
              /\ Len(WithRule(ret[1].result[1].errors, "id-format")) =
                    IF WellFormedId(document[1].attributes[<<"i","d">>]) THEN 0 ELSE 1

\* C24: for a document of a known type validate_document returns a result with exactly
\* one Structure error of rule required-abstract if the type requires an abstract and
\* abstract_content is none, and none otherwise.
C24_AbstractRequirement ==
    KnownTypeValidated =>
        /\ ~ret[1].panicked
        /\ LET found == WithRule(ret[1].result[1].errors, "required-abstract")
           IN /\ Len(found) =
                    IF AbstractRequired /\ abstract_content(document[1]) = None THEN 1 ELSE 0
              /\ \A n \in 1..Len(found) : found[n].error_type = "Structure"

\* the title format hint of the type has a placeholder
HintWithPlaceholder ==
    /\ IsSome(Requirements.title)
    /\ IsSome(Requirements.title[1].format)
    /\ \E k \in 1..Len(Requirements.title[1].format[1]) :
          Requirements.title[1].format[1][k] = "{"

\* C25: for a document of a known type validate_document returns a result in which a
\* title format hint with a placeholder adds exactly one warning and no error, so valid
\* still says that there is no error; without a hint, or with a hint without
\* placeholder, nothing is added.
C25_TitleFormatWarning ==
    KnownTypeValidated =>
        /\ ~ret[1].panicked
        /\ LET found == WithRule(ret[1].result[1].warnings, "title-format")
               errors == ret[1].result[1].errors
           IN /\ Len(found) = IF HintWithPlaceholder THEN 1 ELSE 0
              /\ \A n \in 1..Len(found) : found[n].severity = "Warning"
              /\ WithRule(errors, "title-format") = <<>>
              /\ \A n \in 1..Len(errors) :
                    errors[n].rule \in
                       {Some("schema-validation"), Some("required-sections"),
                        Some("required-abstract"), Some("id-format"),
                        Some("reference-integrity")}
              /\ ret[1].result[1].valid = (errors = <<>>)

\* the sum of Weight over the first twenty lines of the text
ScoreOfFirstLines(Weight(_)) ==
    LET Sum[n \in 0..Len(text)] ==
            IF n = 0 THEN 0
            ELSE Sum[n - 1] + (IF n <= 20 THEN Weight(text[n]) ELSE 0)
    IN Sum[Len(text)]

\* the line, trimmed, starts and ends with ':'
LooksLikeAttribute(line) ==
    Trim(line) # <<>> /\ Trim(line)[1] = ":" /\ Trim(line)[Len(Trim(line))] = ":"

\* the line, trimmed, starts with "//"
IsCommentLine(line) == Len(Trim(line)) >= 2 /\ Trim(line)[1] = "/" /\ Trim(line)[2] = "/"

\* the line has "xref:" or "<<" in it
HasReferenceToken(line) ==
    \E k \in 1..Len(line) :
        \/ (k + 4 <= Len(line) /\ SubSeq(line, k, k + 4) = <<"x","r","e","f",":">>)
        \/ (k + 1 <= Len(line) /\ SubSeq(line, k, k + 1) = <<"<","<">>)

\* C30 as claimed: +2 for a heading line (markers, whitespace, text), else +1 for a line
\* that looks like an attribute, a comment line or a line with a reference token; the
\* content is classified as markup exactly if the first 20 lines score at least 2.
C30_HeadingLinesScoreTwo ==
    Called("is_asciidoc_content") =>
        LET Weight(line) ==
                IF HasHeadingPattern(line) THEN 2
                ELSE IF LooksLikeAttribute(line) \/ IsCommentLine(line)
                        \/ HasReferenceToken(line) THEN 1
                ELSE 0
        IN ret[1].result = (ScoreOfFirstLines(Weight) >= 2)

\* C30: is_asciidoc_content scores the first 20 lines only, each line adding at most one
\* of +2 (its trimmed text starts with '=', heading line or not) or +1 (it starts and
\* ends with ':', or starts with "//", or contains "xref:" or "<<"), and returns true
\* exactly if the score is at least 2; the lines after the 20th change nothing.
C30_ScoreOfFirstTwentyLines ==
    Called("is_asciidoc_content") =>
        LET Weight(line) ==
                IF Trim(line) # <<>> /\ Trim(line)[1] = "=" THEN 2
                ELSE IF LooksLikeAttribute(line) \/ IsCommentLine(line)
                        \/ HasReferenceToken(line) THEN 1
                ELSE 0
        IN /\ ret[1].result = (ScoreOfFirstLines(Weight) >= 2)
           /\ \A n \in 20..Len(text) : ret[1].result = is_asciidoc_content(SubSeq(text, 1, n))

\* the 20th line is the only one of the first twenty with an indicator, worth 1, and
\* the 21st starts with '=': not classified as markup
C30_Witness ==
    /\ Called("is_asciidoc_content")
    /\ Len(text) >= 21
    /\ \A k \in 1..19 : text[k] = <<"p","l","a","i","n">>
    /\ text[20] = <<"/","/"," ","x","r","e","f",":","a">>
    /\ text[21] = <<"="," ","T">>
    /\ ~ret[1].result

\* C31, every state of the first pass and after: the index holds an entry under a type
\* and an id exactly if a file with the three required attributes that declares them
\* has been through validate_document.
C31_IndexedIffStructured ==
    \A type \in {<<"s","t","o","r","y">>, <<"e","p","i","c">>} : \A id \in {<<"s","e","l","f","-","r","e","f">>, <<"s","e","l","f">>, <<"B","a","d","_","I","D">>} :
        Indexed(type, id) <=>
            \E i \in FileIds :
                ValidateOver(i) /\ Structured(i) /\ Declares(docs[i][1], type, id)

\* C31, the steps: a call for a document that lacks a required attribute returns with
\* the index as it was; a call for a document with the three attributes returns and
\* leaves an entry with its path under its type and id, also when it found errors;
\* nothing else changes the index.
C31_IndexStep ==
    /\ \A i \in FileIds :
          ValidateStep(i) =>
              /\ task'[i] = "returning"
              /\ IF LacksRequiredAttribute(docs[i][1])
                 THEN validator' = validator
                 ELSE LET type == docs[i][1].attributes[<<"f","o","r","g","e","p","o","i","n","t","-","t","y","p","e">>]
                          id == docs[i][1].attributes[<<"i","d">>]
                      IN /\ type \in DOMAIN validator'.document_index
                         /\ id \in DOMAIN validator'.document_index[type]
                         /\ validator'.document_index[type][id].file_path = files[i].path
    /\ validator'.document_index # validator.document_index =>
          \E i \in FileIds : ValidateStep(i)

\* C31: validate_document inserts a document into the index if and only if it has the
\* required structure, also when the result of the document is invalid.
C31_IndexedIfAndOnlyIfStructured == []C31_IndexedIffStructured /\ [][C31_IndexStep]_vars

\* what the closures yield when the workers take the lock in the order of the files,
\* from file i on, with the validator as the files before i left it: the results, or
\* the panic that comes out of collect()
RECURSIVE InFileOrder(_, _, _)
InFileOrder(v, fs, i) ==
    IF i > Len(fs) THEN [panicked |-> FALSE, results |-> <<>>]
    ELSE LET parsed == parse_file(fs[i])
         IN IF ~parsed.ok
            THEN LET rest == InFileOrder(v, fs, i + 1)
                 IN [panicked |-> rest.panicked,
                     results |-> <<create_parse_error_result(fs[i].path, parsed.err)>>
                                    \o rest.results]
            ELSE LET r == validate_document(v, parsed.doc[1])
                 IN IF r.panicked
                    THEN [panicked |-> TRUE, results |-> <<>>]
                    ELSE LET rest == InFileOrder(r.validator, fs, i + 1)
                         IN [panicked |-> rest.panicked,
                             results |-> <<r.result[1]>> \o rest.results]

SelfReferences(doc) ==
    SeqFilter(InternalRefs(doc), LAMBDA r : Declares(doc, r.ref_type, r.id))

\* the error of validate_references for this reference is among the errors
ReportedMissing(found, r) ==
    \E e \in Range(found) :
        /\ e.error_type = "Reference"
        /\ e.message = <<"R","e","f","e","r","e","n","c","e"," ","t","o"," ","n","o","n","-","e","x","i","s","t","e","n","t"," ","d","o","c","u","m","e","n","t",":"," ">> \o r.ref_type \o <<":">> \o r.id

\* C33, every state: while the call for a file has not returned, no entry of the index
\* comes from that file.
C33_NotYetInserted ==
    \A i \in FileIds :
        task[i] \in {"todo", "parsed", "locked"} =>
            \A t \in DOMAIN validator.document_index :
                \A d \in DOMAIN validator.document_index[t] :
                    validator.document_index[t][d].file_path # files[i].path

\* C33, the steps: the call for a document that refers to itself returns; its result
\* reports the reference exactly if the index, which holds only what earlier calls
\* inserted, has no entry under that type and id; and the call leaves the entry of the
\* document behind it.
C33_SelfReferenceStep ==
    \A i \in FileIds :
        (ValidateStep(i) /\ Structured(i) /\ SelfReferences(docs[i][1]) # <<>>) =>
            /\ task'[i] = "returning"
            /\ \A r \in Range(SelfReferences(docs[i][1])) :
                  /\ ReportedMissing(results'[i][1].errors, r) <=> ~Indexed(r.ref_type, r.id)
                  /\ r.ref_type \in DOMAIN validator'.document_index
                  /\ r.id \in DOMAIN validator'.document_index[r.ref_type]
                  /\ validator'.document_index[r.ref_type][r.id].file_path = files[i].path

\* C33: a reference of a document to its own type and id is looked up in the index as
\* it was before the document was inserted, and is reported unless a document with that
\* type and id was indexed earlier.
C33_SelfReferenceBeforeInsertion == []C33_NotYetInserted /\ [][C33_SelfReferenceStep]_vars

\* the files whose result carries the id of the result of file i
SameIdResults(i) ==
    {j \in FileIds : final_results[j].document_id = final_results[i].document_id}

\* C34: a batch with duplicate checking in which a file with the required structure
\* declares the id of another ends with its two passes done; after the second pass the
\* result of a file whose id is the id of another result holds exactly one IdConflict
\* error; the result of a file whose id occurs once, or that has no id, holds none and
\* is as valid as the first pass left it.
C34_OneConflictPerDuplicatedId ==
    /\ (Over /\ check_ids) =>
          \A i \in Occurrences : OtherOccurrences(i) # {} => pc = "done"
    /\ (pc = "done" /\ check_ids /\ final_results # <<>>) =>
          \A i \in FileIds :
              LET conflicts == OfType(final_results[i].errors, "IdConflict")
              IN IF IsSome(final_results[i].document_id) /\ SameIdResults(i) # {i}
                 THEN Len(conflicts) = 1
                 ELSE conflicts = <<>> /\ final_results[i].valid = results[i][1].valid

\* the letter of the path p comes before the letter of the path q
Before(p, q) ==
    \E k, l \in 1..4 : k < l /\ p = <<<<"a", "b", "c", "d">>[k]>> \o <<".","a","d","o","c">>
                              /\ q = <<<<"a", "b", "c", "d">>[l]>> \o <<".","a","d","o","c">>

\* C35: the results collected from the first pass, and the results after the second
\* pass, are as many as the files, whose paths are in ascending order without
\* duplicates, and the i-th result carries the path of the i-th file.
C35_ResultsAlignedWithFiles ==
    (pc \in {"second_pass", "done"} /\ files # <<>>) =>
        /\ Len(final_results) = Len(files)
        /\ \A i \in FileIds : final_results[i].file_path = files[i].path
        /\ \A i, j \in FileIds : i < j => Before(files[i].path, files[j].path)

\* the run is over for two files: the first could not be read, the second lacks an
\* attribute, and each result is in the place of its file
C35_Witness ==
    /\ pc = "done"
    /\ Len(files) = 2
    /\ ~files[1].readable /\ Parsed(2)
    /\ files[1].path = <<"a",".","a","d","o","c">> /\ files[2].path = <<"b",".","a","d","o","c">>
    /\ final_results[1].file_path = <<"a",".","a","d","o","c">>
    /\ final_results[1].errors[1].error_type = "Format"
    /\ final_results[2].file_path = <<"b",".","a","d","o","c">>
    /\ final_results[2].errors[1].error_type = "Structure"

\* the document types the registry of the linter's loader lists
ListedTypes == 
    IF IsSome(schema_loader.registry)
    THEN {schema_loader.registry[1].document_types[k].doc_type
            : k \in 1..Len(schema_loader.registry[1].document_types)}
    ELSE {}

\* C36: lint_file on a readable file whose declared type the linter's loader lists and
\* holds a compiled schema for returns a result, and the result has no
\* unknown-document-type error.
C36_LoadedSchemasUsed ==
    (Called("lint_file") /\ ret[1].readable) =>
        LET type == parse_content(text, <<"a",".","a","d","o","c">>).attributes[<<"f","o","r","g","e","p","o","i","n","t","-","t","y","p","e">>]
        IN (type \in ListedTypes /\ type \in DOMAIN schema_loader.compiled_schemas) =>
              /\ ~ret[1].panicked
              /\ WithRule(ret[1].result[1].errors, "valid-document-type") = <<>>

\* C37: when load_schemas has returned Ok, a type is among the types get_document_types
\* lists exactly if is_valid_document_type accepts it.
C37_ListedIffValid ==
    (Called("load_schemas") /\ ret[1].result.ok) =>
        \A type \in AskedTypes :
            (\E k \in 1..Len(get_document_types(schema_loader)) :
                 get_document_types(schema_loader)[k].doc_type = type)
            <=> is_valid_document_type(schema_loader, type)

\* C38, every point of the scan: a section is open exactly if header mode is left.
C38_OpenIffOutsideHeader ==
    IsSome(locals) => (IsSome(locals[1].st.current_section) <=> ~locals[1].st.in_header)

\* C38, the steps: header mode ends only on a heading line, which opens a section; an
\* open section is followed by an open section; a non-blank line of the header that is
\* neither the title, nor an attribute, nor a heading changes nothing.
C38_HeaderStep ==
    LoopStep =>
        /\ (locals[1].st.in_header /\ ~locals'[1].st.in_header) =>
              /\ HasHeadingPattern(StepLine) /\ StepLineNumber # TitleLine(text)
              /\ IsSome(locals'[1].st.current_section)
              /\ locals'[1].st.current_section[1].line_number = Some(StepLineNumber)
        /\ IsSome(locals[1].st.current_section) => IsSome(locals'[1].st.current_section)
        /\ (/\ locals[1].st.in_header
            /\ ~IsBlank(StepLine)
            /\ ~HasHeadingPattern(StepLine)
            /\ AttributeCapture(StepLine) = None) => locals'[1].st = locals[1].st

\* C38: a section is open if and only if the parser has left header mode.
C38_SectionOpenOutsideHeader == []C38_OpenIffOutsideHeader /\ [][C38_HeaderStep]_vars

\* the scan has passed a line of body text in the header and then a heading, and has
\* lines left: the section of the heading is open, with nothing of the body text
C38_Witness ==
    /\ IsSome(locals)
    /\ locals[1].line_no = 2 /\ Len(text) > 2
    /\ text[1] = <<" ","x"," ">> /\ text[2] = <<"=","="," ","A">>
    /\ ~locals[1].st.in_header
    /\ locals[1].st.sections = <<>>
    /\ locals[1].st.current_section =
          Some([level |-> 2, title |-> <<"A">>, content |-> <<>>, line_number |-> Some(2)])

=============================================================================
